---------------------------- MODULE Spec2Model ----------------------------
(***************************************************************************)
(* A model of the check-in engine of pt_checkin: the task context          *)
(* (SignInEntry), the daily ledger (SignInStatusManager), the append-only  *)
(* sign-in log of the ptsites variant (DatabaseManager) and the scheduler  *)
(* cycle (TaskScheduler.run_sign_in_task).                                 *)
(*                                                                         *)
(* Time is a pair [day, hour].  A ledger row stores the hour of its        *)
(* timestamp; its date key is the day it was written on.  Message texts    *)
(* (result, reason, messages, details) carry no control effect in the      *)
(* ledger and are not modelled there.                                      *)
(***************************************************************************)
EXTENDS Integers, Sequences, FiniteSets, TLC

VARIABLES
    failed,          \* SignInEntry.failed
    reason,          \* SignInEntry.reason
    error_type,      \* SignInEntry._error_type ("unset" until the first store)
    last_fail,       \* history: the last fail() call and the state before it
    now,             \* the wall clock, [day, hour]
    backend,         \* which source variant's store is in use: "json" | "sqlite"
    status_data,     \* SignInStatusManager.status_data, as a set of rows
    status_file,     \* the rows persisted in signin_status.json
    sign_in_log,     \* DatabaseManager's sign_in_log table, a sequence of rows
    last,            \* history: the last ledger operation and the row before it
    pc,              \* scheduler: "idle" | "running"
    force_options,   \* the dict handed to run_sign_in_task
    request,         \* history: how the cycle was asked for
    valid_entries,   \* entries that passed the filters and are still to run
    skipped_entries, \* the skipped list of the current / last cycle
    executed,        \* history: sites whose sign_in was invoked in the current / last cycle
    written,         \* history: sites whose rows the current / last cycle changed
    cycle_start,     \* history: today's success rows and the sites in backoff at cycle start
    cycle_end,       \* history: how the last cycle ended
    success_count,   \* run_sign_in_task's aggregate of the current / last cycle
    failed_count,
    success_results, \* the sites of the success detail list, in order
    failed_results,  \* the sites of the failure detail list, in order
    scheduled,       \* history: the sites that passed the filters of the cycle
    completed,       \* history: the tasks finished in the cycle, with their outcome
    worker_pc,       \* workers: where each worker is in its task
    today_absent,    \* workers: what `today not in self.status_data` gave each worker
    lock,            \* executor.lock, the value of the Semaphore(1)
    session_cookie,  \* workers: entry['session_cookie'] of each worker's entry
    cookies_backup_file,  \* cookies_backup.json, as a set of [site, cookie]
    cookies_backup_json,  \* workers: the dict each worker read from the file
    coordinator,     \* retry: "execute_with_retry" (Executor) | "main" (pt_checkin.py)
    retry_pc,        \* retry: "idle" | "retrying" | "done"
    max_retries,     \* retry: the number of attempts allowed
    attempt,         \* retry: the loop variable of `for attempt in range(max_retries)`
    use_cookie_cloud,     \* retry: entry['use_cookie_cloud'], the target's opt-in
    cookie_cloud_client,  \* retry: whether a CookieCloud client is configured
    config_cookie,   \* retry: the cookie of the target's static configuration
    cookie_cache,    \* retry: the target's row of the cookie_cache table
    entry_cookie,    \* retry: entry['cookie'], the credential attempts use
    cloud_queries,   \* history: calls of CookieCloud.get_cookies in the run
    entry_url,       \* retry: whether urlparse(entry["url"]).netloc gives a domain
    cookies,         \* retry: CookieCloud.cookies, the client's cached set
    fetches,         \* history: calls of _fetch_all_cookies, the remote contacts
    refresh_calls,   \* history: those made after a failed attempt
    last_error,      \* retry: the SignInError of the last failed attempt
    attempt_log,     \* history: outcome, cookie and refresh of every attempt
    resolved,        \* history: what the credential resolution did
    report,          \* retry: the result reported for the target
    ctx,             \* workflow: the task context (SignInEntry) of the run
    cls,             \* history: the last call of a classifier function
    wf_pc,           \* workflow: where executor.sign_in is in its run
    workflow,        \* workflow: the list of Works the site builds
    work_index,      \* workflow: the number of Works that met their assert_state
    cookie_backup,   \* workflow: config['cookie_backup']
    net_call,        \* history: the last network call a Work's method issued
    last_work,       \* workflow: last_work of PrivateTorrent.sign_in
    last_response,   \* workflow: last_response of PrivateTorrent.sign_in
    last_content,    \* workflow: last_content of PrivateTorrent.sign_in
    run              \* history: how the workflow ended and what followed

entry_vars == <<failed, reason, error_type, last_fail>>
ledger_vars == <<now, backend, status_data, status_file, sign_in_log, last>>
aggregate_vars == <<success_count, failed_count, success_results, failed_results>>
sched_vars == <<pc, force_options, request, valid_entries, skipped_entries,
                executed, written, cycle_start, cycle_end, aggregate_vars,
                scheduled, completed>>
worker_vars == <<worker_pc, today_absent, lock, session_cookie,
                 cookies_backup_file, cookies_backup_json>>
retry_vars == <<coordinator, retry_pc, max_retries, attempt, use_cookie_cloud,
                cookie_cloud_client, config_cookie, cookie_cache, entry_cookie,
                cloud_queries, entry_url, cookies, fetches, refresh_calls,
                last_error, attempt_log, resolved, report>>
classify_vars == <<ctx, cls>>
workflow_vars == <<wf_pc, workflow, work_index, cookie_backup, net_call,
                   last_work, last_response, last_content, run>>
rest_vars == <<worker_vars, retry_vars, classify_vars, workflow_vars>>
vars == <<failed, reason, error_type, last_fail, now, backend, status_data,
          status_file, sign_in_log, last, pc, force_options, request,
          valid_entries, skipped_entries, executed, written, cycle_start,
          cycle_end, success_count, failed_count, success_results,
          failed_results, scheduled, completed, worker_pc, today_absent,
          lock, session_cookie, cookies_backup_file, cookies_backup_json,
          coordinator, retry_pc, max_retries, attempt, use_cookie_cloud,
          cookie_cloud_client, config_cookie, cookie_cache, entry_cookie,
          cloud_queries, entry_url, cookies, fetches, refresh_calls,
          last_error, attempt_log, resolved, report, ctx, cls, wf_pc, workflow, work_index, cookie_backup,
          net_call, last_work, last_response, last_content, run>>

---------------------------------------------------------------------------
(* Bounds of the model *)

MaxDay == 1
MaxHour == 1
MaxFailCount == 2
MaxLogRows == 2
MaxLedgerDates == 2

(* Program constants *)

KeepDays == 7

(* The configuration the scheduler runs with: max_failed_attempts and *)
(* failed_retry_interval (hours) of the config file.                   *)

ConfigMaxFailedAttempts == 1
ConfigRetryInterval == 1

Sites == {"s1", "s2"}
LedgerSites == {"s1"}
Reasons == {"r1", "r2", "r3"}
ErrorTypes == {"connectivity", "authentication", "general", "other"}

---------------------------------------------------------------------------
(* SignInEntry.fail *)

ErrorPriority(t) ==
    CASE t = "connectivity" -> 3
      [] t = "authentication" -> 2
      [] t = "general" -> 1
      [] OTHER -> 1

ExistingErrorType(stored) == IF stored = "unset" THEN "general" ELSE stored

OverwritesAlways(current, existing) == TRUE

Overwrites(current, existing) == current >= existing

Fail(r, t) ==
    /\ failed' = TRUE
    /\ IF Overwrites(ErrorPriority(t), ErrorPriority(ExistingErrorType(error_type)))
       THEN /\ reason' = r
            /\ error_type' = t
       ELSE UNCHANGED <<reason, error_type>>
    /\ last_fail' = [called |-> TRUE, reason |-> r, error_type |-> t,
                     pre_failed |-> failed, pre_reason |-> reason,
                     pre_type |-> error_type]
    /\ UNCHANGED <<ledger_vars, sched_vars, rest_vars>>

---------------------------------------------------------------------------
(* SignInStatusManager: the daily ledger.  status_data[date][site] = row is *)
(* kept as the set of rows; a dict store replaces the row under its key.    *)

NoRow == [date |-> -1, site |-> "", status |-> "absent", failed_count |-> 0,
          hour |-> -1]

TodayKey(t) == t.day

RowsOf(L, d, s) == {r \in L : r.date = d /\ r.site = s}

HasRow(L, d, s) == RowsOf(L, d, s) # {}

RowOf(L, d, s) == CHOOSE r \in RowsOf(L, d, s) : TRUE

StoreWithoutReplace(L, row) == L \cup {row}

Store(L, row) == (L \ RowsOf(L, row.date, row.site)) \cup {row}

Delete(L, d, s) == L \ RowsOf(L, d, s)

IsSignedToday(L, t, s) ==
    /\ HasRow(L, TodayKey(t), s)
    /\ RowOf(L, TodayKey(t), s).status = "success"

GetSiteStatus(L, t, s) ==
    IF HasRow(L, TodayKey(t), s) THEN RowOf(L, TodayKey(t), s) ELSE NoRow

GetFailedCountOfAnyDate(L, t, s) ==
    IF \E r \in L : r.site = s
    THEN (CHOOSE r \in L :
              /\ r.site = s
              /\ \A q \in L : q.site = s => q.failed_count <= r.failed_count).failed_count
    ELSE 0

GetFailedCount(L, t, s) ==
    IF HasRow(L, TodayKey(t), s) THEN RowOf(L, TodayKey(t), s).failed_count ELSE 0

RecordSigninSuccessKeepingCount(L, t, s) ==
    Store(L, [date |-> TodayKey(t), site |-> s, status |-> "success",
              failed_count |-> GetFailedCount(L, t, s), hour |-> t.hour])

RecordSigninSuccess(L, t, s) ==
    Store(L, [date |-> TodayKey(t), site |-> s, status |-> "success",
              failed_count |-> 0, hour |-> t.hour])

CurrentFailedCount(L, t, s) ==
    IF HasRow(L, TodayKey(t), s)
    THEN IF RowOf(L, TodayKey(t), s).status = "success"
         THEN 0
         ELSE RowOf(L, TodayKey(t), s).failed_count
    ELSE 0

RecordSigninFailedFromZero(L, t, s) ==
    Store(L, [date |-> TodayKey(t), site |-> s, status |-> "failed",
              failed_count |-> 1, hour |-> t.hour])

RecordSigninFailed(L, t, s) ==
    Store(L, [date |-> TodayKey(t), site |-> s, status |-> "failed",
              failed_count |-> CurrentFailedCount(L, t, s) + 1, hour |-> t.hour])

ClearSiteStatusDroppingCount(L, t, s, keep_failed_count) == Delete(L, TodayKey(t), s)

ClearSiteStatus(L, t, s, keep_failed_count) ==
    IF HasRow(L, TodayKey(t), s)
    THEN IF keep_failed_count
         THEN IF GetFailedCount(L, t, s) > 0
              THEN Store(Delete(L, TodayKey(t), s),
                         [date |-> TodayKey(t), site |-> s, status |-> "none",
                          failed_count |-> GetFailedCount(L, t, s), hour |-> -1])
              ELSE Delete(L, TodayKey(t), s)
         ELSE Delete(L, TodayKey(t), s)
    ELSE L

ShouldSkipOnlyWithinInterval(L, t, s, max_failed_attempts, retry_interval_hours) ==
    /\ GetFailedCount(L, t, s) >= max_failed_attempts
    /\ GetSiteStatus(L, t, s).status = "failed"
    /\ GetSiteStatus(L, t, s).hour >= 0
    /\ t.hour - GetSiteStatus(L, t, s).hour < retry_interval_hours

ShouldSkipDueToFailures(L, t, s, max_failed_attempts, retry_interval_hours) ==
    IF GetFailedCount(L, t, s) < max_failed_attempts
    THEN FALSE
    ELSE IF GetSiteStatus(L, t, s).status = "failed"
         THEN IF GetSiteStatus(L, t, s).hour < 0
              THEN FALSE   \* KeyError / ValueError on the timestamp
              ELSE t.hour - GetSiteStatus(L, t, s).hour < retry_interval_hours
         ELSE TRUE

ResetFailedCount(L, t, s) ==
    IF HasRow(L, TodayKey(t), s)
    THEN Store(L, [RowOf(L, TodayKey(t), s) EXCEPT !.failed_count = 0])
    ELSE L

ClearAllStatus(L, t) == {r \in L : r.date # TodayKey(t)}

CleanupOldRecords(L, t, keep_days) ==
    {r \in L : ~(t.day - r.date > keep_days)}

(* save_status rewrites the whole file from status_data; load_status reads  *)
(* it back when a SignInStatusManager is constructed.                       *)

SaveStatusSkipped(file, data) == file

SaveStatus(file, data) == data

LoadStatus(file) == file

---------------------------------------------------------------------------
(* DatabaseManager: the sqlite sign_in_log of the ptsites variant *)

AddLogRows(log, t, s, status) ==
    Append(log, [site |-> s, date |-> t.day, hour |-> t.hour, status |-> status])

HasSignedInToday(log, t, s) ==
    \E i \in 1..Len(log) :
        /\ log[i].site = s
        /\ log[i].status = "Success"
        /\ log[i].date = t.day

---------------------------------------------------------------------------
(* Initial states *)

EntryInit ==
    /\ failed = FALSE
    /\ reason = ""
    /\ error_type = "unset"
    /\ last_fail = [called |-> FALSE, reason |-> "", error_type |-> "unset",
                    pre_failed |-> FALSE, pre_reason |-> "", pre_type |-> "unset"]

NoOp == [op |-> "none", site |-> "", pre_status |-> "absent", pre_count |-> 0,
         keep |-> FALSE, thr |-> 0, intv |-> 0, res |-> FALSE,
         streak |-> -1, streak_site |-> ""]

LedgerInit ==
    /\ now = [day |-> 0, hour |-> 0]
    /\ status_data = {}
    /\ status_file = {}
    /\ sign_in_log = <<>>
    /\ last = NoOp

NoRequest == [via |-> "none", site |-> "", force |-> FALSE]

SchedInit ==
    /\ pc = "idle"
    /\ force_options = [force_all |-> FALSE, force_sites |-> {}, force_site |-> ""]
    /\ request = NoRequest
    /\ valid_entries = <<>>
    /\ skipped_entries = {}
    /\ executed = {}
    /\ written = {}
    /\ cycle_start = [signed_rows |-> {}, backoff |-> {}]
    /\ cycle_end = "none"
    /\ success_count = 0
    /\ failed_count = 0
    /\ success_results = <<>>
    /\ failed_results = <<>>
    /\ scheduled = {}
    /\ completed = {}

Workers == {1, 2}

WorkerInit ==
    /\ worker_pc = [w \in Workers |-> "start"]
    /\ today_absent = [w \in Workers |-> FALSE]
    /\ lock = 1
    /\ session_cookie = [w \in Workers |-> ""]
    /\ cookies_backup_file = {}
    /\ cookies_backup_json = [w \in Workers |-> {}]

DefaultMaxRetries == 3

NoCookie == <<"none", 0>>

NoError == [category |-> "none", attempt |-> 0]

NoReport == [status |-> "none", reason |-> NoError]

NotResolved == [done |-> FALSE, cookie |-> NoCookie, queried |-> FALSE,
                record |-> NoCookie, cloud |-> NoCookie]

(* CookieCloud.cookies is None until the first fetch; afterwards it holds  *)
(* the set that fetch produced: answer n > 0 when it has a cookie for the  *)
(* target's domain (the n-th answer of the remote service), answer 0 when  *)
(* it has none (an empty set, or a set without the domain)                 *)
NotFetched == [fetched |-> FALSE, answer |-> 0]

RetryIdle ==
    /\ retry_pc = "idle"
    /\ cookies = NotFetched
    /\ fetches = 0
    /\ attempt = 0
    /\ entry_cookie = NoCookie
    /\ cloud_queries = 0
    /\ refresh_calls = 0
    /\ last_error = NoError
    /\ attempt_log = <<>>
    /\ resolved = NotResolved
    /\ report = NoReport

RetryInit ==
    /\ RetryIdle
    /\ coordinator = "execute_with_retry"
    /\ max_retries = DefaultMaxRetries
    /\ use_cookie_cloud = FALSE
    /\ cookie_cloud_client = FALSE
    /\ config_cookie = NoCookie
    /\ cookie_cache = NoCookie
    /\ entry_url = "ok"

(* The states a classifier returns are members of three Enum classes; a   *)
(* member is its class and its name, and members of different classes are *)
(* different values whatever their names.                                 *)

RequestNetworkState(n) == [enum |-> "request.NetworkState", name |-> n]

CommonNetworkState(n) == [enum |-> "common_utils.NetworkState", name |-> n]

SignStateOf(n) == [enum |-> "SignState", name |-> n]

NotClassified == [enum |-> "none", name |-> "none"]

NoReason == [prefix |-> "", text |-> ""]

NewContext ==
    [failed |-> FALSE, reason |-> NoReason, error_type |-> "unset",
     prefix |-> "Sign_in", result |-> <<>>, extra_msg |-> <<>>,
     session_cookie |-> FALSE, messages_status |-> "none",
     details_status |-> "none"]

NoResponse == [present |-> FALSE, in_urls |-> FALSE, status |-> 0]

NoContent ==
    [present |-> FALSE, succeed |-> FALSE, fail |-> FALSE, transient |-> FALSE,
     signature |-> "none", group |-> <<>>, rest |-> <<>>]

NoWork ==
    [assert_method |-> "none", assert_state |-> NotClassified,
     succeed_regex |-> FALSE, fail_regex |-> FALSE]

NoCall ==
    [called |-> FALSE, method |-> "none", check_content |-> FALSE,
     work |-> NoWork, response |-> NoResponse, content |-> NoContent,
     pre |-> NewContext, state |-> NotClassified, checks |-> <<>>]

NoNetCall ==
    [issued |-> FALSE, class |-> "none", target |-> "none",
     has_timeout |-> FALSE, timeout |-> 0]

NoRun ==
    [stopped |-> "none", stop_failed |-> FALSE, completed |-> FALSE,
     left |-> FALSE, signin |-> NewContext, collaborators |-> <<>>,
     saved_cookie |-> FALSE, recorded |-> "none", steps |-> <<>>]

(* last_work = None *)
NoLastWork == [present |-> FALSE]

ClassifyInit ==
    /\ ctx = NewContext
    /\ cls = NoCall

WorkflowInit ==
    /\ wf_pc = "start"
    /\ workflow = <<>>
    /\ work_index = 0
    /\ cookie_backup = TRUE
    /\ net_call = NoNetCall
    /\ last_work = NoLastWork
    /\ last_response = NoResponse
    /\ last_content = NoContent
    /\ run = NoRun

FlowInit == ClassifyInit /\ WorkflowInit

RestInit == WorkerInit /\ RetryInit /\ FlowInit

---------------------------------------------------------------------------
(* SpecEntry: any sequence of fail() calls on one task context *)

InitEntry == EntryInit /\ LedgerInit /\ SchedInit /\ RestInit /\ backend = "json"

NextEntry == \E r \in Reasons, t \in ErrorTypes : Fail(r, t)

SpecEntry == InitEntry /\ [][NextEntry]_vars

---------------------------------------------------------------------------
(* SpecLedger: any sequence of ledger operations and clock steps.  `last`  *)
(* remembers the operation just made and what today's row held before it;  *)
(* streak counts the failure writes made since a success write of the same *)
(* site and day (-1 when no such run of writes is open).                   *)

Op(name, s, L) == [NoOp EXCEPT !.op = name, !.site = s,
                               !.pre_status = GetSiteStatus(L, now, s).status,
                               !.pre_count = GetFailedCount(L, now, s)]

SuccessWrite(s) ==
    /\ backend = "json"
    /\ status_data' = RecordSigninSuccess(status_data, now, s)
    /\ status_file' = SaveStatus(status_file, status_data')
    /\ last' = [Op("success", s, status_data) EXCEPT !.streak = 0, !.streak_site = s]
    /\ UNCHANGED <<now, backend, sign_in_log, entry_vars, rest_vars, sched_vars>>

FailureWrite(s) ==
    /\ backend = "json"
    /\ CurrentFailedCount(status_data, now, s) < MaxFailCount
    /\ status_data' = RecordSigninFailed(status_data, now, s)
    /\ status_file' = SaveStatus(status_file, status_data')
    /\ last' = [Op("failed", s, status_data) EXCEPT
                   !.streak = IF last.streak >= 0 /\ last.streak_site = s
                              THEN last.streak + 1 ELSE -1,
                   !.streak_site = s]
    /\ UNCHANGED <<now, backend, sign_in_log, entry_vars, rest_vars, sched_vars>>

Clear(s, keep) ==
    /\ backend = "json"
    /\ status_data' = ClearSiteStatus(status_data, now, s, keep)
    /\ status_file' = SaveStatus(status_file, status_data')
    /\ last' = [Op("clear", s, status_data) EXCEPT !.keep = keep]
    /\ UNCHANGED <<now, backend, sign_in_log, entry_vars, rest_vars, sched_vars>>

ClearAll ==
    /\ backend = "json"
    /\ status_data' = ClearAllStatus(status_data, now)
    /\ status_file' = SaveStatus(status_file, status_data')
    /\ last' = [NoOp EXCEPT !.op = "clear_all"]
    /\ UNCHANGED <<now, backend, sign_in_log, entry_vars, rest_vars, sched_vars>>

ResetCount(s) ==
    /\ backend = "json"
    /\ status_data' = ResetFailedCount(status_data, now, s)
    /\ status_file' = SaveStatus(status_file, status_data')
    /\ last' = Op("reset", s, status_data)
    /\ UNCHANGED <<now, backend, sign_in_log, entry_vars, rest_vars, sched_vars>>

CheckSkip(s, thr, intv) ==
    /\ backend = "json"
    /\ last' = [Op("skip", s, status_data) EXCEPT
                    !.thr = thr, !.intv = intv,
                    !.res = ShouldSkipDueToFailures(status_data, now, s, thr, intv),
                    !.streak = last.streak, !.streak_site = last.streak_site]
    /\ UNCHANGED <<now, backend, status_data, status_file, sign_in_log, entry_vars, rest_vars,
                   sched_vars>>

Cleanup(keep_days) ==
    /\ backend = "json"
    /\ status_data' = CleanupOldRecords(status_data, now, keep_days)
    /\ status_file' = SaveStatus(status_file, status_data')
    /\ last' = [NoOp EXCEPT !.op = "cleanup", !.thr = keep_days]
    /\ UNCHANGED <<now, backend, sign_in_log, entry_vars, rest_vars, sched_vars>>

AddLog(s, status) ==
    /\ backend = "sqlite"
    /\ Len(sign_in_log) < MaxLogRows
    /\ sign_in_log' = AddLogRows(sign_in_log, now, s, status)
    /\ last' = [NoOp EXCEPT !.op = "add_log", !.site = s]
    /\ UNCHANGED <<now, backend, status_data, status_file, entry_vars, rest_vars, sched_vars>>

Tick ==
    /\ now.hour < MaxHour
    /\ now' = [now EXCEPT !.hour = @ + 1]
    /\ last' = [NoOp EXCEPT !.op = "clock", !.streak = last.streak,
                            !.streak_site = last.streak_site]
    /\ UNCHANGED <<backend, status_data, status_file, sign_in_log, entry_vars, rest_vars,
                   sched_vars>>

NextDay ==
    /\ now.day < MaxDay
    /\ now' = [day |-> now.day + 1, hour |-> 0]
    /\ last' = [NoOp EXCEPT !.op = "clock"]
    /\ UNCHANGED <<backend, status_data, status_file, sign_in_log, entry_vars, rest_vars,
                   sched_vars>>

InitLedger ==
    EntryInit /\ LedgerInit /\ SchedInit /\ RestInit /\ backend \in {"json", "sqlite"}

NextLedger ==
    \/ \E s \in LedgerSites : SuccessWrite(s)
    \/ \E s \in LedgerSites : FailureWrite(s)
    \/ \E s \in LedgerSites, keep \in BOOLEAN : Clear(s, keep)
    \/ ClearAll
    \/ \E s \in LedgerSites : ResetCount(s)
    \/ \E s \in LedgerSites, thr \in 1..MaxFailCount, intv \in 1..(MaxHour + 1) :
           CheckSkip(s, thr, intv)
    \/ \E k \in {0, 1, KeepDays} : Cleanup(k)
    \/ \E s \in LedgerSites, status \in {"Success", "Failed"} : AddLog(s, status)
    \/ Tick
    \/ NextDay

SpecLedger == InitLedger /\ [][NextLedger]_vars

---------------------------------------------------------------------------
(* SpecWorkers: two workers of a pool of size 2 run one target each, both   *)
(* successfully, in one process: they share executor.lock, the backup file, *)
(* and the scheduler's SignInStatusManager.  Each worker goes through       *)
(* save_cookie (at the end of sign_in) and then record_signin_success, one  *)
(* statement at a time; the other worker may run between any two.           *)

WorkerSite(w) == IF w = 1 THEN "s1" ELSE "s2"

SaveCookieSteps == {"locked", "read"}

OthersUnchanged ==
    UNCHANGED <<now, backend, sign_in_log, last, entry_vars, sched_vars, retry_vars,
                classify_vars, workflow_vars>>

(* save_cookie: nothing to save without a session cookie *)
SkipSaveCookie(w) ==
    /\ worker_pc[w] = "start"
    /\ session_cookie[w] = ""
    /\ worker_pc' = [worker_pc EXCEPT ![w] = "signed"]
    /\ UNCHANGED <<status_data, status_file, today_absent, lock, session_cookie,
                   cookies_backup_file, cookies_backup_json>>
    /\ OthersUnchanged

CanAcquireAlways(value) == TRUE

CanAcquire(value) == value > 0

(* with lock: *)
AcquireLock(w) ==
    /\ worker_pc[w] = "start"
    /\ session_cookie[w] # ""
    /\ CanAcquire(lock)
    /\ lock' = lock - 1
    /\ worker_pc' = [worker_pc EXCEPT ![w] = "locked"]
    /\ UNCHANGED <<status_data, status_file, today_absent, session_cookie,
                   cookies_backup_file, cookies_backup_json>>
    /\ OthersUnchanged

(* cookies_backup_json = json.loads(cookies_backup_file.read_text()) *)
ReadBackup(w) ==
    /\ worker_pc[w] = "locked"
    /\ cookies_backup_json' = [cookies_backup_json EXCEPT ![w] = cookies_backup_file]
    /\ worker_pc' = [worker_pc EXCEPT ![w] = "read"]
    /\ UNCHANGED <<status_data, status_file, today_absent, lock, session_cookie,
                   cookies_backup_file>>
    /\ OthersUnchanged

PutCookie(backup, site, cookie) ==
    {r \in backup : r.site # site} \cup {[site |-> site, cookie |-> cookie]}

(* cookies_backup_json[site_name] = {...}; write_text; leaving the with block *)
WriteBackup(w) ==
    /\ worker_pc[w] = "read"
    /\ cookies_backup_json' =
           [cookies_backup_json EXCEPT
               ![w] = PutCookie(@, WorkerSite(w), session_cookie[w])]
    /\ cookies_backup_file' = cookies_backup_json'[w]
    /\ lock' = lock + 1
    /\ worker_pc' = [worker_pc EXCEPT ![w] = "signed"]
    /\ UNCHANGED <<status_data, status_file, today_absent, session_cookie>>
    /\ OthersUnchanged

(* record_signin_success: if today not in self.status_data *)
CheckToday(w) ==
    /\ worker_pc[w] = "signed"
    /\ today_absent' =
           [today_absent EXCEPT
               ![w] = ~(\E r \in status_data : r.date = TodayKey(now))]
    /\ worker_pc' = [worker_pc EXCEPT ![w] = "checked"]
    /\ UNCHANGED <<status_data, status_file, lock, session_cookie,
                   cookies_backup_file, cookies_backup_json>>
    /\ OthersUnchanged

CreateToday(L, t) == {r \in L : r.date # TodayKey(t)}

(* self.status_data[today] = {} *)
CreateTodayStep(w) ==
    /\ worker_pc[w] = "checked"
    /\ status_data' = IF today_absent[w] THEN CreateToday(status_data, now)
                                         ELSE status_data
    /\ worker_pc' = [worker_pc EXCEPT ![w] = "created"]
    /\ UNCHANGED <<status_file, today_absent, lock, session_cookie,
                   cookies_backup_file, cookies_backup_json>>
    /\ OthersUnchanged

(* self.status_data[today][site_name] = {...} *)
StoreRow(w) ==
    /\ worker_pc[w] = "created"
    /\ status_data' = RecordSigninSuccess(status_data, now, WorkerSite(w))
    /\ worker_pc' = [worker_pc EXCEPT ![w] = "stored"]
    /\ UNCHANGED <<status_file, today_absent, lock, session_cookie,
                   cookies_backup_file, cookies_backup_json>>
    /\ OthersUnchanged

(* self.save_status() *)
SaveStep(w) ==
    /\ worker_pc[w] = "stored"
    /\ status_file' = SaveStatus(status_file, status_data)
    /\ worker_pc' = [worker_pc EXCEPT ![w] = "done"]
    /\ UNCHANGED <<status_data, today_absent, lock, session_cookie,
                   cookies_backup_file, cookies_backup_json>>
    /\ OthersUnchanged

EarlierRows ==
    {{}, {[date |-> 0, site |-> "s1", status |-> "failed", failed_count |-> 1,
           hour |-> 0]}}

InitWorkers ==
    /\ EntryInit
    /\ SchedInit
    /\ backend = "json"
    /\ now = [day |-> 0, hour |-> 0]
    /\ status_data \in EarlierRows
    /\ status_file = status_data
    /\ sign_in_log = <<>>
    /\ last = NoOp
    /\ worker_pc = [w \in Workers |-> "start"]
    /\ today_absent = [w \in Workers |-> FALSE]
    /\ lock = 1
    /\ session_cookie \in [Workers -> {"", "k"}]
    /\ cookies_backup_file \in {{}, {[site |-> "s1", cookie |-> "old"]}}
    /\ cookies_backup_json = [w \in Workers |-> {}]
    /\ RetryInit
    /\ FlowInit

NextWorkers ==
    \E w \in Workers :
        \/ SkipSaveCookie(w)
        \/ AcquireLock(w)
        \/ ReadBackup(w)
        \/ WriteBackup(w)
        \/ CheckToday(w)
        \/ CreateTodayStep(w)
        \/ StoreRow(w)
        \/ SaveStep(w)

SpecWorkers == InitWorkers /\ [][NextWorkers]_vars

---------------------------------------------------------------------------
(* SpecRetry: one run of one target by the retry coordinator, in its two    *)
(* copies: Executor.execute_with_retry and the loop of pt_checkin.py main.  *)
(* A cookie is <<kind, n>>: the configured one, the cached record present   *)
(* before the run, or the n-th answer of CookieCloud in this run.  The      *)
(* outcome of an attempt is "ok", "auth" (the result says the check-in      *)
(* failed: SignInError, the cookie may have expired) or "conn" (sign_in     *)
(* raised, e.g. a network error, wrapped in SignInError).  The answer of    *)
(* CookieCloud is "new" (a cookie), "none" (None) or "raise" (ValueError /  *)
(* AttributeError).  The client keeps the set of its first fetch, so what   *)
(* the remote service holds ("cookies", "nothing", or "error" when the      *)
(* fetch fails) decides the answer only on the first call.                  *)

RetrySite == "s1"

Outcomes == {"ok", "auth", "conn"}

Responses == {"new", "none", "raise"}

CloudCookie(n) == <<"cloud", n>>

CloudEnabled == use_cookie_cloud /\ cookie_cloud_client

Remotes == {"cookies", "nothing", "error"}

(* what urlparse(entry["url"]).netloc gives: a domain, or ValueError /      *)
(* AttributeError                                                           *)
EntryUrls == {"ok", "bad"}

FetchesEveryCall(cache) == TRUE

(* `if self.cookies is None: self._fetch_all_cookies()` *)
Fetches(cache) == ~cache.fetched

(* _fetch_all_cookies: the set the n-th contact of the remote service gives *)
FetchAllCookies(remote, n) ==
    [fetched |-> TRUE, answer |-> IF remote = "cookies" THEN n ELSE 0]

(* get_cookies(domain): [cookies, contacted, answer] *)
GetCookies(cache, remote, n) ==
    LET contacted == Fetches(cache)
        set == IF contacted THEN FetchAllCookies(remote, n) ELSE cache
    IN  [cookies |-> set, contacted |-> contacted, answer |-> set.answer]

(* domain = urlparse(entry["url"]).netloc; get_cookies(domain=domain):      *)
(* [response, answer, cookies, contacted]                                   *)
Query(url, cache, remote, n) ==
    IF url = "bad"
    THEN [response |-> "raise", answer |-> 0, cookies |-> cache, contacted |-> FALSE]
    ELSE LET got == GetCookies(cache, remote, n)
         IN  [response |-> IF got.answer > 0 THEN "new" ELSE "none",
              answer |-> got.answer, cookies |-> got.cookies,
              contacted |-> got.contacted]

(* _get_cookie: [cookie, queried, record] *)
GetCookieRecordFirst(opt_in, client, record, configured, response, n) ==
    IF record # NoCookie
    THEN [cookie |-> record, queried |-> FALSE, record |-> record]
    ELSE IF opt_in /\ client
         THEN IF response = "new"
              THEN [cookie |-> CloudCookie(n), queried |-> TRUE,
                    record |-> CloudCookie(n)]
              ELSE [cookie |-> configured, queried |-> TRUE, record |-> record]
         ELSE [cookie |-> configured, queried |-> FALSE, record |-> record]

GetCookie(opt_in, client, record, configured, response, n) ==
    IF opt_in /\ client
    THEN IF record # NoCookie
         THEN [cookie |-> record, queried |-> FALSE, record |-> record]
         ELSE IF response = "new"
              THEN [cookie |-> CloudCookie(n), queried |-> TRUE,
                    record |-> CloudCookie(n)]
              ELSE [cookie |-> configured, queried |-> TRUE, record |-> record]
    ELSE [cookie |-> configured, queried |-> FALSE, record |-> record]

RetryFrame ==
    UNCHANGED <<now, backend, status_data, status_file, last, entry_vars,
                sched_vars, worker_vars, coordinator, max_retries,
                use_cookie_cloud, cookie_cloud_client, config_cookie,
                entry_url, classify_vars, workflow_vars>>

(* The start of a run: the signed-today gate and the credential resolution *)
Resolve(remote) ==
    /\ retry_pc = "idle"
    /\ IF HasSignedInToday(sign_in_log, now, RetrySite)
       THEN /\ report' = [status |-> "signed", reason |-> NoError]
            /\ retry_pc' = "done"
            /\ UNCHANGED <<cookie_cache, entry_cookie, cloud_queries, cookies,
                           fetches, resolved>>
       ELSE LET q == Query(entry_url, cookies, remote, fetches + 1)
                got == GetCookie(use_cookie_cloud, cookie_cloud_client, cookie_cache,
                                 config_cookie, q.response, q.answer)
            IN  /\ cookie_cache' = got.record
                /\ cloud_queries' = IF got.queried THEN cloud_queries + 1
                                                   ELSE cloud_queries
                /\ cookies' = IF got.queried THEN q.cookies ELSE cookies
                /\ fetches' = IF got.queried /\ q.contacted THEN fetches + 1
                                                             ELSE fetches
                /\ resolved' = [done |-> TRUE, cookie |-> got.cookie,
                                queried |-> got.queried, record |-> cookie_cache,
                                cloud |-> IF got.queried /\ q.response = "new"
                                          THEN CloudCookie(q.answer)
                                          ELSE NoCookie]
                /\ IF got.cookie = NoCookie
                   THEN /\ report' = [status |-> "no_cookie", reason |-> NoError]
                        /\ retry_pc' = "done"
                        /\ UNCHANGED entry_cookie
                   ELSE /\ entry_cookie' = got.cookie
                        /\ retry_pc' = "retrying"
                        /\ UNCHANGED report
    /\ UNCHANGED <<sign_in_log, attempt, refresh_calls, last_error, attempt_log>>
    /\ RetryFrame

(* for attempt in range(max_retries) *)
InRangeOneMore(i, n) == i <= n

InRange(i, n) == i < n

(* Executor.execute: the log row of the attempt *)
ExecuteLog(log, t, outcome) ==
    AddLogRows(log, t, RetrySite, IF outcome = "ok" THEN "Success" ELSE "Failed")

(* the condition of the forced refresh after a failed attempt *)
RefreshesOnlyAfterAuth(outcome, i, n) == outcome = "auth" /\ i < n - 1 /\ CloudEnabled

Refreshes(outcome, i, n) == i < n - 1 /\ CloudEnabled

(* db_manager.save_cookie(site_name, new_cookie) *)
SaveCookieDropped(record, cookie) == record

SaveCookie(record, cookie) == cookie

Failure(e) == [status |-> "failed", reason |-> e]

(* what the copy reports when the failed attempt i was the last of the loop *)
(* (exhausted) or the loop was left by break                                *)
ReportAtEnd(copy, e, old, exhausted) ==
    IF copy = "execute_with_retry"
    THEN Failure(e)
    ELSE IF exhausted THEN Failure(e) ELSE old

BreaksNever(response) == FALSE

(* the `break` after a refresh without a cookie and in                     *)
(* `except (ValueError, AttributeError)`                                   *)
Breaks(response) == response \in {"none", "raise"}

(* One iteration of the loop: the attempt, and what follows its failure *)
Attempt(outcome, remote) ==
    /\ retry_pc = "retrying"
    /\ InRange(attempt, max_retries)
    /\ sign_in_log' = ExecuteLog(sign_in_log, now, outcome)
    /\ IF outcome = "ok"
       THEN /\ report' = [status |-> "success", reason |-> NoError]
            /\ retry_pc' = "done"
            /\ attempt_log' = Append(attempt_log,
                   [outcome |-> outcome, cookie |-> entry_cookie,
                    refreshed |-> FALSE, response |-> "none", answer |-> 0])
            /\ UNCHANGED <<attempt, cookie_cache, entry_cookie, cloud_queries,
                           cookies, fetches, refresh_calls, last_error>>
       ELSE LET e == [category |-> outcome, attempt |-> attempt + 1]
                q == Query(entry_url, cookies, remote, fetches + 1)
                refresh == Refreshes(outcome, attempt, max_retries)
                exhausted == ~InRange(attempt + 1, max_retries)
            IN  /\ last_error' = e
                /\ attempt_log' = Append(attempt_log,
                       [outcome |-> outcome, cookie |-> entry_cookie,
                        refreshed |-> refresh,
                        response |-> IF refresh THEN q.response ELSE "none",
                        answer |-> IF refresh THEN q.answer ELSE 0])
                /\ cloud_queries' = IF refresh THEN cloud_queries + 1
                                              ELSE cloud_queries
                /\ refresh_calls' = IF refresh THEN refresh_calls + 1
                                              ELSE refresh_calls
                /\ cookies' = IF refresh THEN q.cookies ELSE cookies
                /\ fetches' = IF refresh /\ q.contacted THEN fetches + 1
                                                         ELSE fetches
                /\ IF refresh /\ q.response = "new"
                   THEN /\ cookie_cache' =
                               SaveCookie(cookie_cache, CloudCookie(q.answer))
                        /\ entry_cookie' = CloudCookie(q.answer)
                        /\ attempt' = attempt + 1
                        /\ UNCHANGED <<retry_pc, report>>
                   ELSE IF refresh /\ Breaks(q.response)
                   THEN /\ report' = ReportAtEnd(coordinator, e, report, FALSE)
                        /\ retry_pc' = "done"
                        /\ UNCHANGED <<attempt, cookie_cache, entry_cookie>>
                   ELSE /\ attempt' = attempt + 1
                        /\ IF exhausted
                           THEN /\ report' = ReportAtEnd(coordinator, e, report, TRUE)
                                /\ retry_pc' = "done"
                           ELSE UNCHANGED <<retry_pc, report>>
                        /\ UNCHANGED <<cookie_cache, entry_cookie>>
    /\ UNCHANGED resolved
    /\ RetryFrame

InitRetry ==
    /\ EntryInit
    /\ SchedInit
    /\ WorkerInit
    /\ FlowInit
    /\ retry_pc = "idle"
    /\ attempt = 0
    /\ entry_cookie = NoCookie
    /\ cloud_queries = 0
    /\ refresh_calls = 0
    /\ last_error = NoError
    /\ attempt_log = <<>>
    /\ resolved = NotResolved
    /\ report = NoReport
    /\ backend = "sqlite"
    /\ now = [day |-> 0, hour |-> 0]
    /\ status_data = {}
    /\ status_file = {}
    /\ last = NoOp
    /\ sign_in_log \in {<<>>, AddLogRows(<<>>, now, RetrySite, "Success")}
    /\ coordinator \in {"execute_with_retry", "main"}
    /\ max_retries \in IF coordinator = "main" THEN {DefaultMaxRetries}
                                              ELSE 1..DefaultMaxRetries
    /\ use_cookie_cloud \in BOOLEAN
    /\ cookie_cloud_client \in BOOLEAN
    /\ config_cookie \in {NoCookie, <<"config", 0>>}
    /\ cookie_cache \in {NoCookie, <<"record", 0>>}
    /\ entry_url \in EntryUrls
    /\ cookies \in {NotFetched} \cup {FetchAllCookies(remote, 1) : remote \in Remotes}
    /\ fetches = IF cookies.fetched THEN 1 ELSE 0

NextRetry ==
    \/ \E remote \in Remotes : Resolve(remote)
    \/ \E outcome \in Outcomes, remote \in Remotes : Attempt(outcome, remote)

SpecRetry == InitRetry /\ [][NextRetry]_vars

---------------------------------------------------------------------------
(* The outcome classifier: check_network_state of base/request.py and     *)
(* check_sign_in_state / check_final_state of base/sign_in.py.  A response *)
(* is absent (None) or carries whether its final URL is among the Work's   *)
(* response_urls and its status code.  A content is absent (None: nothing  *)
(* to decode, or decode_response failed) or carries what the patterns find *)
(* in it: whether one of the Work's succeed_regex matches, and then the    *)
(* text of the matched group and the text around the match; whether the    *)
(* Work's fail_regex matches; whether one of the network error patterns    *)
(* matches; and whether the page is a maintenance page or an anti-bot      *)
(* challenge.  Texts are sequences of fragments.                           *)

EntryFail(e, r, t) ==
    LET over == Overwrites(ErrorPriority(t),
                           ErrorPriority(ExistingErrorType(e.error_type)))
    IN  [e EXCEPT !.failed = TRUE,
                  !.reason = IF over THEN r ELSE @,
                  !.error_type = IF over THEN t ELSE @]

(* full_reason = f"{prefix}=> {reason}. ({last_date})", error_type 'general' *)
FailWithPrefix(e, text) ==
    EntryFail(e, [prefix |-> e.prefix, text |-> text], "general")

Markup == {"<b>", "&shy;", "&nbsp;"}

IsText(fragment) == fragment \notin Markup

(* re.sub("<.*?>|&shy;|&nbsp;", "", ...) *)
Strip(text) == SelectSeq(text, IsText)

CheckNetworkStateUrlFirst(e, response, content, check_content) ==
    IF response.present /\ ~response.in_urls
    THEN [state |-> RequestNetworkState("URL_REDIRECT"),
          entry |-> FailWithPrefix(e, "Url redirect"),
          checks |-> <<"response_urls">>]
    ELSE IF ~response.present \/ (check_content /\ ~content.present)
    THEN [state |-> RequestNetworkState("NETWORK_ERROR"),
          entry |-> FailWithPrefix(e, "Network error"),
          checks |-> <<"response_urls", "response">>]
    ELSE [state |-> RequestNetworkState("SUCCEED"), entry |-> e,
          checks |-> <<"response_urls", "response">>]

CheckNetworkStateNoRedirect(e, response, content, check_content) ==
    IF ~response.present \/ (check_content /\ ~content.present)
    THEN [state |-> RequestNetworkState("NETWORK_ERROR"),
          entry |-> FailWithPrefix(e, "Network error"),
          checks |-> <<"response">>]
    ELSE [state |-> RequestNetworkState("SUCCEED"), entry |-> e,
          checks |-> <<"response">>]

CheckNetworkState(e, response, content, check_content) ==
    IF ~response.present \/ (check_content /\ ~content.present)
    THEN [state |-> RequestNetworkState("NETWORK_ERROR"),
          entry |-> FailWithPrefix(e, "Network error"),
          checks |-> <<"response">>]
    ELSE IF ~response.in_urls
    THEN [state |-> RequestNetworkState("URL_REDIRECT"),
          entry |-> FailWithPrefix(e, "Url redirect"),
          checks |-> <<"response", "response_urls">>]
    ELSE [state |-> RequestNetworkState("SUCCEED"), entry |-> e,
          checks |-> <<"response", "response_urls">>]

(* `network_state != NetworkState.SUCCEED` of check_sign_in_state, where   *)
(* NetworkState is the class sign_in.py imports from utils/common_utils.py *)
(* and network_state is a member of the class of base/request.py           *)
NetworkSucceeded(network_state) == network_state = CommonNetworkState("SUCCEED")

CheckSignInState(e, work, response, content) ==
    LET net == CheckNetworkState(e, response, content, TRUE)
    IN  IF ~NetworkSucceeded(net.state)
        THEN net
        ELSE IF ~work.succeed_regex
        THEN [state |-> SignStateOf("SUCCEED"),
              entry |-> [e EXCEPT !.result = <<"Succeed">> \o e.extra_msg],
              checks |-> net.checks]
        ELSE IF content.succeed
        THEN [state |-> SignStateOf("SUCCEED"),
              entry |-> [e EXCEPT !.result =
                             Strip(content.group) \o e.result \o e.extra_msg],
              checks |-> net.checks \o <<"succeed_regex">>]
        ELSE IF work.fail_regex /\ content.fail
        THEN [state |-> SignStateOf("WRONG_ANSWER"), entry |-> e,
              checks |-> net.checks \o <<"succeed_regex", "fail_regex">>]
        ELSE IF content.transient
        THEN [state |-> CommonNetworkState("NETWORK_ERROR"),
              entry |-> FailWithPrefix(e, "Network error"),
              checks |-> net.checks \o <<"succeed_regex", "fail_regex",
                                         "network_error_patterns">>]
        ELSE [state |-> SignStateOf("NO_SIGN_IN"), entry |-> e,
              checks |-> net.checks \o <<"succeed_regex", "fail_regex",
                                         "network_error_patterns">>]

CheckFinalState(e, work, response, content) ==
    LET sign_in_state == CheckSignInState(e, work, response, content)
    IN  IF sign_in_state.state = SignStateOf("NO_SIGN_IN")
        THEN [state |-> SignStateOf("SIGN_IN_FAILED"),
              entry |-> FailWithPrefix(sign_in_state.entry, "Sign in failed"),
              checks |-> sign_in_state.checks]
        ELSE sign_in_state

CheckMethods == {"check_network_state", "check_sign_in_state", "check_final_state"}

(* check_method(entry, work, response, content): check_network_state takes *)
(* content as its fourth argument and leaves check_content at False        *)
CheckMethod(method, check_content, e, work, response, content) ==
    CASE method = "check_network_state" ->
             CheckNetworkState(e, response, content, check_content)
      [] method = "check_sign_in_state" ->
             CheckSignInState(e, work, response, content)
      [] method = "check_final_state" ->
             CheckFinalState(e, work, response, content)

ChecksContent(method, check_content) ==
    method # "check_network_state" \/ check_content

CallOf(method, check_content, e, work, response, content, out) ==
    [called |-> TRUE, method |-> method,
     check_content |-> ChecksContent(method, check_content),
     work |-> work, response |-> response, content |-> content, pre |-> e,
     state |-> out.state, checks |-> out.checks]

(* SpecClassify: the classifier functions applied to every input *)

HttpResponses ==
    {NoResponse} \cup [present : {TRUE}, in_urls : BOOLEAN, status : {200, 503}]

MatchedGroups == {<<"Welcome back">>, <<"<b>", "Welcome back", "&nbsp;">>}

Rests == {<<>>, <<", Alice!">>}

Contents ==
    {NoContent} \cup
    {c \in [present : {TRUE}, succeed : BOOLEAN, fail : BOOLEAN,
            transient : BOOLEAN,
            signature : {"none", "maintenance", "antibot"},
            group : MatchedGroups \cup {<<>>}, rest : Rests] :
        c.succeed <=> c.group # <<>>}

(* common.decode(None) is None *)
Decoded(response) == IF response.present THEN Contents ELSE {NoContent}

WorkPatterns ==
    [assert_method : {"none"}, assert_state : {NotClassified},
     succeed_regex : BOOLEAN, fail_regex : BOOLEAN]

PriorContexts ==
    {[NewContext EXCEPT !.result = r, !.extra_msg = x] :
        r \in {<<>>, <<"earlier">>}, x \in {<<>>, <<"extra">>}}

FlowFrame == UNCHANGED <<entry_vars, ledger_vars, sched_vars, worker_vars, retry_vars>>

(* the arguments of a call that is still to be made *)
PendingCall(method, check_content, e, work, response, content) ==
    [called |-> FALSE, method |-> method,
     check_content |-> ChecksContent(method, check_content),
     work |-> work, response |-> response, content |-> content, pre |-> e,
     state |-> NotClassified, checks |-> <<>>]

PendingCalls ==
    {PendingCall(method, check_content, e, work, response, content) :
        method \in CheckMethods, check_content \in BOOLEAN, e \in PriorContexts,
        work \in WorkPatterns, response \in HttpResponses, content \in Contents}

Classify(method) ==
    /\ ~cls.called
    /\ cls.method = method
    /\ LET out == CheckMethod(method, cls.check_content, cls.pre, cls.work,
                              cls.response, cls.content)
       IN  /\ ctx' = out.entry
           /\ cls' = CallOf(method, cls.check_content, cls.pre, cls.work,
                            cls.response, cls.content, out)
    /\ UNCHANGED workflow_vars
    /\ FlowFrame

ClassifyNetwork == Classify("check_network_state")

ClassifySignIn == Classify("check_sign_in_state")

ClassifyFinal == Classify("check_final_state")

InitClassify ==
    /\ EntryInit
    /\ LedgerInit
    /\ SchedInit
    /\ WorkerInit
    /\ RetryInit
    /\ WorkflowInit
    /\ backend = "json"
    /\ cls \in {c \in PendingCalls :
                  /\ c.content \in Decoded(c.response)
                  /\ c.method = "check_network_state" => c.work = NoWork}
    /\ ctx = cls.pre

NextClassify ==
    \/ ClassifyNetwork
    \/ ClassifySignIn
    \/ ClassifyFinal

SpecClassify == InitClassify /\ [][NextClassify]_vars

---------------------------------------------------------------------------
(* SpecWorkflow: one run of executor.sign_in for one target.  The site's   *)
(* sign_in runs the Works of its workflow in order (the loop of            *)
(* PrivateTorrent.sign_in); then get_messages and get_details run, the     *)
(* cookie is backed up, and the scheduler records the outcome.             *)

MaxWorks == 2

RequestTimeout == 60

(* the Works of the workflows of sites/abn.py and of BakatestHR *)
NetworkWork ==
    [assert_method |-> "check_network_state",
     assert_state |-> RequestNetworkState("SUCCEED"),
     succeed_regex |-> FALSE, fail_regex |-> FALSE, use_last_content |-> FALSE]

FinalWork ==
    [assert_method |-> "check_final_state", assert_state |-> SignStateOf("SUCCEED"),
     succeed_regex |-> TRUE, fail_regex |-> FALSE, use_last_content |-> FALSE]

ProbeWork ==
    [assert_method |-> "check_sign_in_state",
     assert_state |-> SignStateOf("NO_SIGN_IN"),
     succeed_regex |-> TRUE, fail_regex |-> FALSE, use_last_content |-> FALSE]

AnswerWork ==
    [assert_method |-> "none", assert_state |-> NotClassified,
     succeed_regex |-> TRUE, fail_regex |-> TRUE, use_last_content |-> FALSE]

(* Work(..., use_last_content=True): the Work of sites/hdpost.py, and a    *)
(* Work that only checks the network state of the content it reuses        *)
UseLastContent(work) ==
    [assert_method |-> work.assert_method, assert_state |-> work.assert_state,
     succeed_regex |-> work.succeed_regex, fail_regex |-> work.fail_regex,
     use_last_content |-> TRUE]

Works == {NetworkWork, FinalWork, ProbeWork, AnswerWork,
          UseLastContent(FinalWork), UseLastContent(NetworkWork)}

Workflows == UNION {[1..n -> Works] : n \in 0..MaxWorks}

(* the pages a target answers with *)
Pages ==
    {c \in Contents :
        /\ c.signature = "none"
        /\ c.rest = <<>>
        /\ c.group \in {<<>>, <<"Welcome back">>}
        /\ ~(c.succeed /\ (c.fail \/ c.transient))
        /\ ~(c.fail /\ c.transient)}

RequestClasses == {"SmartRequest", "StandardRequest"}

(* what the target does with a request: it answers 200, answers another   *)
(* status, answers with the Cloudflare page, the transport raises, or it   *)
(* never answers                                                           *)
Targets == {"ok", "status", "cloudflare", "exception", "never"}

(* session.request(method, url, timeout=60, **kwargs) of StandardRequest;  *)
(* session.request(method, url, **kwargs) of SmartRequest                  *)
HasTimeout(class) == class = "StandardRequest"

NetCallOf(class, target) ==
    [issued |-> TRUE, class |-> class, target |-> target,
     has_timeout |-> HasTimeout(class),
     timeout |-> IF HasTimeout(class) THEN RequestTimeout ELSE 0]

(* _request_with_standard / StandardRequest.request:                       *)
(* [blocked, entry, response]                                              *)
Request(e, class, target, in_urls) ==
    IF target = "never" /\ ~HasTimeout(class)
    THEN [blocked |-> TRUE, entry |-> e, response |-> NoResponse]
    ELSE IF target \in {"never", "exception"}
    THEN [blocked |-> FALSE, entry |-> FailWithPrefix(e, "Network error"),
          response |-> NoResponse]
    ELSE IF target = "cloudflare"
    THEN [blocked |-> FALSE,
          entry |-> [FailWithPrefix(e, "CloudFlare") EXCEPT !.session_cookie = TRUE],
          response |-> [present |-> TRUE, in_urls |-> in_urls, status |-> 200]]
    ELSE IF target = "status"
    THEN [blocked |-> FALSE,
          entry |-> [FailWithPrefix(e, "status_code") EXCEPT !.session_cookie = TRUE],
          response |-> [present |-> TRUE, in_urls |-> in_urls, status |-> 503]]
    ELSE [blocked |-> FALSE, entry |-> [e EXCEPT !.session_cookie = TRUE],
          response |-> [present |-> TRUE, in_urls |-> in_urls, status |-> 200]]

CheckStateOfFailed(e, work, response, content) ==
    IF work.assert_method = "none"
    THEN [ok |-> TRUE, classified |-> FALSE, entry |-> e,
          state |-> NotClassified, checks |-> <<>>]
    ELSE LET out == CheckMethod(work.assert_method, FALSE, e, work, response, content)
         IN  [ok |-> out.state = work.assert_state, classified |-> TRUE,
              entry |-> out.entry, state |-> out.state, checks |-> out.checks]

(* check_state: [ok, classified, entry, state, checks] *)
CheckState(e, work, response, content) ==
    IF e.failed
    THEN [ok |-> FALSE, classified |-> FALSE, entry |-> e,
          state |-> NotClassified, checks |-> <<>>]
    ELSE IF work.assert_method = "none"
    THEN [ok |-> TRUE, classified |-> FALSE, entry |-> e,
          state |-> NotClassified, checks |-> <<>>]
    ELSE LET out == CheckMethod(work.assert_method, FALSE, e, work, response, content)
         IN  [ok |-> out.state = work.assert_state, classified |-> TRUE,
              entry |-> out.entry, state |-> out.state, checks |-> out.checks]

(* executor.sign_in after site_object.sign_in: `if entry.failed: return entry` *)
AfterSignIn(e) == IF e.failed THEN "finished" ELSE "messages"

LeaveWorkflow(e, why, done) ==
    [run EXCEPT !.stopped = why, !.stop_failed = e.failed, !.completed = done,
                !.left = TRUE, !.signin = e]

(* PrivateTorrent.sign_in before the loop *)
StartSignIn ==
    /\ wf_pc = "start"
    /\ IF workflow = <<>>
       THEN /\ ctx' = FailWithPrefix(ctx, "url or workflow is empty")
            /\ wf_pc' = AfterSignIn(ctx')
            /\ run' = LeaveWorkflow(ctx', "empty", FALSE)
       ELSE /\ wf_pc' = "workflow"
            /\ UNCHANGED <<ctx, run>>
    /\ UNCHANGED <<cls, workflow, work_index, cookie_backup, net_call,
                   last_work, last_response, last_content>>
    /\ FlowFrame

ReusesNever(work, prior) == FALSE

(* `if work.use_last_content and last_work:` *)
Reuses(work, prior) == work.use_last_content /\ prior.present

ContinuesAlways(chk) == TRUE

(* `if not check_state(entry, work, last_response, last_content): return` *)
Continues(chk) == chk.ok

(* One iteration of the loop: the Work's method (sign_in_by_get, or        *)
(* sign_in_by_post, which returns None when the Work has no data), the     *)
(* decoding of the response, and check_state                               *)
Step(class, target, in_urls, page, no_data) ==
    /\ wf_pc = "workflow"
    /\ work_index < Len(workflow)
    /\ LET work == workflow[work_index + 1]
           reuse == Reuses(work, last_work)
           req == IF reuse \/ no_data
                  THEN [blocked |-> FALSE, entry |-> ctx,
                        response |-> IF reuse THEN last_response ELSE NoResponse]
                  ELSE Request(ctx, class, target, in_urls)
           content == IF reuse THEN last_content
                      ELSE IF req.response.present THEN page ELSE NoContent
           chk == CheckState(req.entry, work, req.response, content)
           is_last == work_index + 1 = Len(workflow)
           step == [index |-> work_index + 1, invoked |-> ~reuse,
                    called |-> ~reuse /\ ~no_data, returned |-> ~req.blocked,
                    flagged |-> work.use_last_content,
                    had_last |-> last_work.present,
                    same_response |-> req.response = last_response,
                    same_content |-> content = last_content,
                    failed |-> req.entry.failed,
                    classified |-> ~req.blocked /\ chk.classified,
                    ok |-> ~req.blocked /\ chk.ok]
       IN  /\ net_call' = IF reuse \/ no_data THEN NoNetCall
                                               ELSE NetCallOf(class, target)
           /\ IF req.blocked
              THEN /\ wf_pc' = "blocked"
                   /\ run' = [run EXCEPT !.steps = Append(@, step)]
                   /\ UNCHANGED <<ctx, cls, work_index, last_work,
                                  last_response, last_content>>
              ELSE /\ ctx' = chk.entry
                   /\ cls' = IF chk.classified
                             THEN CallOf(work.assert_method, FALSE, req.entry, work,
                                         req.response, content, chk)
                             ELSE NoCall
                   /\ last_response' = req.response
                   /\ last_content' = content
                   /\ last_work' = IF Continues(chk)
                                   THEN [present |-> TRUE, work |-> work]
                                   ELSE last_work
                   /\ IF Continues(chk)
                      THEN /\ work_index' = work_index + 1
                           /\ IF is_last
                              THEN /\ wf_pc' = AfterSignIn(chk.entry)
                                   /\ run' = [LeaveWorkflow(chk.entry, "none", TRUE)
                                                 EXCEPT !.steps = Append(@, step)]
                              ELSE /\ run' = [run EXCEPT !.steps = Append(@, step)]
                                   /\ UNCHANGED wf_pc
                      ELSE /\ wf_pc' = AfterSignIn(chk.entry)
                           /\ run' = [LeaveWorkflow(chk.entry,
                                         IF chk.classified THEN "mismatch"
                                                           ELSE "failed", FALSE)
                                         EXCEPT !.steps = Append(@, step)]
                           /\ UNCHANGED work_index
    /\ UNCHANGED <<workflow, cookie_backup>>
    /\ FlowFrame

(* What a collaborator does to the entry: nothing, fail_with_prefix,       *)
(* raise, or fail_with_prefix (e.g. by the request of a page that answers  *)
(* with another status than 200) followed by a raise while parsing         *)
CollaboratorOutcomes == {"ok", "failed", "raised", "failed_raised"}

MarksFailed(outcome) == outcome \in {"failed", "failed_raised"}

Raises(outcome) == outcome \in {"raised", "failed_raised"}

(* the try block of step 2 / step 3 of executor.sign_in *)
Collaborator(e, prefix, outcome) ==
    LET original_failed == e.failed
        original_reason == e.reason
        began == [e EXCEPT !.prefix = prefix]
        during == IF MarksFailed(outcome)
                  THEN FailWithPrefix(began, "collaborator")
                  ELSE began
    IN  IF Raises(outcome)
        THEN during
        ELSE IF during.failed
        THEN [during EXCEPT !.failed = original_failed,
                            !.reason = original_reason]
        ELSE during

CollaboratorStatus(e, prefix, outcome) ==
    IF Raises(outcome) \/ MarksFailed(outcome) \/ e.failed THEN "failed" ELSE "success"

GetMessages(outcome) ==
    /\ wf_pc = "messages"
    /\ ctx' = [Collaborator(ctx, "Messages", outcome) EXCEPT
                   !.messages_status = CollaboratorStatus(ctx, "Messages", outcome)]
    /\ run' = [run EXCEPT !.collaborators = Append(@, outcome)]
    /\ wf_pc' = "details"
    /\ UNCHANGED <<cls, workflow, work_index, cookie_backup, net_call,
                   last_work, last_response, last_content>>
    /\ FlowFrame

GetDetails(outcome) ==
    /\ wf_pc = "details"
    /\ ctx' = [Collaborator(ctx, "Details", outcome) EXCEPT
                   !.details_status = CollaboratorStatus(ctx, "Details", outcome)]
    /\ run' = [run EXCEPT !.collaborators = Append(@, outcome)]
    /\ wf_pc' = "backup"
    /\ UNCHANGED <<cls, workflow, work_index, cookie_backup, net_call,
                   last_work, last_response, last_content>>
    /\ FlowFrame

(* step 4 of executor.sign_in, with save_cookie, and clean_entry_attr *)
BackupCookie ==
    /\ wf_pc = "backup"
    /\ run' = [run EXCEPT !.saved_cookie =
                   cookie_backup /\ ~ctx.failed /\ ctx.session_cookie]
    /\ ctx' = [ctx EXCEPT !.prefix = ""]
    /\ wf_pc' = "finished"
    /\ UNCHANGED <<cls, workflow, work_index, cookie_backup, net_call,
                   last_work, last_response, last_content>>
    /\ FlowFrame

(* run_sign_in_task after _sign_in_with_error_handling: `if entry.failed` *)
RecordOutcome ==
    /\ wf_pc = "finished"
    /\ run' = [run EXCEPT !.recorded = IF ctx.failed THEN "failed" ELSE "success"]
    /\ wf_pc' = "recorded"
    /\ UNCHANGED <<ctx, cls, workflow, work_index, cookie_backup, net_call,
                   last_work, last_response, last_content>>
    /\ FlowFrame

(* what a Work's method meets: the request class in use, what the target  *)
(* does, whether the response URL is one of response_urls, the page, and   *)
(* whether the Work has no data to post.  A call without a response has no *)
(* URL and no page, and a Work without data issues no call.                *)
Exchanges ==
    {x \in [class : RequestClasses, target : Targets, in_urls : BOOLEAN,
            page : Pages \cup {NoContent}, no_data : BOOLEAN] :
        /\ x.target \in {"never", "exception"} =>
               x.in_urls /\ x.page = NoContent
        /\ x.no_data =>
               /\ x.class = "SmartRequest"
               /\ x.target = "ok"
               /\ x.in_urls
               /\ x.page = NoContent}

InitWorkflow ==
    /\ EntryInit
    /\ LedgerInit
    /\ SchedInit
    /\ WorkerInit
    /\ RetryInit
    /\ ClassifyInit
    /\ backend = "json"
    /\ wf_pc = "start"
    /\ workflow \in Workflows
    /\ work_index = 0
    /\ cookie_backup \in BOOLEAN
    /\ net_call = NoNetCall
    /\ last_work = NoLastWork
    /\ last_response = NoResponse
    /\ last_content = NoContent
    /\ run = NoRun

NextWorkflow ==
    \/ StartSignIn
    \/ \E x \in Exchanges :
           Step(x.class, x.target, x.in_urls, x.page, x.no_data)
    \/ \E outcome \in CollaboratorOutcomes : GetMessages(outcome)
    \/ \E outcome \in CollaboratorOutcomes : GetDetails(outcome)
    \/ BackupCookie
    \/ RecordOutcome

SpecWorkflow == InitWorkflow /\ [][NextWorkflow]_vars

---------------------------------------------------------------------------
(* Claims about the task context, checked under SpecEntry *)

CallPriority == ErrorPriority(last_fail.error_type)

StoredPriorityBefore == ErrorPriority(ExistingErrorType(last_fail.pre_type))

\* C1: every fail(reason, category) call sets the failed flag; it replaces the
\* stored reason and category exactly when its category's priority is >= the
\* stored one, so the stored priority never decreases and a lower-priority
\* call leaves the stored reason and category as they were.
C1_FailPriority ==
    last_fail.called =>
        /\ failed
        /\ CallPriority >= StoredPriorityBefore =>
               reason = last_fail.reason /\ error_type = last_fail.error_type
        /\ CallPriority < StoredPriorityBefore =>
               reason = last_fail.pre_reason /\ error_type = last_fail.pre_type
        /\ ErrorPriority(ExistingErrorType(error_type)) >= StoredPriorityBefore

C1_Witness ==
    /\ last_fail.called
    /\ CallPriority < StoredPriorityBefore
    /\ last_fail.reason # reason
    /\ reason = last_fail.pre_reason

---------------------------------------------------------------------------
(* Claims about the ledger, checked under SpecLedger *)

Today == TodayKey(now)

Keys(L) == {<<r.date, r.site>> : r \in L}

LogRowsOf(log, d, s) == {i \in 1..Len(log) : log[i].date = d /\ log[i].site = s}

JsonOneRecordPerKey ==
    \A k \in Keys(status_data) : Cardinality(RowsOf(status_data, k[1], k[2])) = 1

SqliteOneRecordPerKey ==
    \A i \in 1..Len(sign_in_log) :
        Cardinality(LogRowsOf(sign_in_log, sign_in_log[i].date, sign_in_log[i].site)) = 1

SecondSuccessWrite == last.op = "success" /\ last.pre_status = "success"

SuccessWriteIdempotent ==
    SecondSuccessWrite =>
        /\ Cardinality(RowsOf(status_data, Today, last.site)) = 1
        /\ GetSiteStatus(status_data, now, last.site).status = "success"
        /\ GetFailedCount(status_data, now, last.site) = last.pre_count

C3_SuccessResetsCount ==
    last.op = "success" =>
        /\ GetSiteStatus(status_data, now, last.site).status = "success"
        /\ GetFailedCount(status_data, now, last.site) = 0

C3_Witness ==
    /\ last.op = "success"
    /\ last.pre_status = "none"
    /\ last.pre_count > 0
    /\ GetFailedCount(status_data, now, last.site) = 0

PreviousCount ==
    IF last.pre_status \in {"absent", "success"} THEN 0 ELSE last.pre_count

\* C4: a failure write sets status failed and failure_count to the previous
\* count + 1, the previous count being 0 when there was no record for the date
\* or the record was a success; k consecutive failure writes after a success
\* give failure_count = k.
C4_FailureIncrements ==
    last.op = "failed" =>
        /\ GetSiteStatus(status_data, now, last.site).status = "failed"
        /\ GetFailedCount(status_data, now, last.site) = PreviousCount + 1
        /\ last.streak > 0 => GetFailedCount(status_data, now, last.site) = last.streak

C4_Witness ==
    /\ last.op = "failed"
    /\ last.streak = MaxFailCount
    /\ GetFailedCount(status_data, now, last.site) = MaxFailCount

SkipRow == GetSiteStatus(status_data, now, last.site)

WithinInterval == SkipRow.hour >= 0 /\ now.hour - SkipRow.hour < last.intv

C9_ClearKeepsCount ==
    (last.op = "clear" /\ last.keep) =>
        /\ ~IsSignedToday(status_data, now, last.site)
        /\ GetSiteStatus(status_data, now, last.site).status \in {"absent", "none"}
        /\ GetFailedCount(status_data, now, last.site) = last.pre_count
        /\ GetFailedCount(RecordSigninFailed(status_data, now, last.site),
                          now, last.site) = last.pre_count + 1

C9_Witness ==
    /\ last.op = "clear"
    /\ last.keep
    /\ last.pre_status = "failed"
    /\ last.pre_count > 0
    /\ GetFailedCount(status_data, now, last.site) = last.pre_count

---------------------------------------------------------------------------
(* TaskScheduler.run_sign_in_task, and the entry points that build its     *)
(* force_options.  The filter loop is one step (StartCycle); each task and *)
(* its ledger write is one step (RunTask); the last task's step ends with  *)
(* the cleanup of old records.                                             *)

ConfigSites == <<"s1", "s2">>

CliRunOptions(site, force) ==
    [force_all |-> force,
     force_sites |-> IF site # "" THEN {site} ELSE {},
     force_site |-> ""]

RunSigninOptions(site, force) ==
    [force_all |-> force, force_sites |-> {}, force_site |-> site]

Selected(opts, s) == opts.force_sites = {} \/ s \in opts.force_sites

ShouldForce(opts) == opts.force_all

SkippedSigned(opts, L, t, s) ==
    /\ Selected(opts, s)
    /\ ~ShouldForce(opts)
    /\ IsSignedToday(L, t, s)

SkippedBackoff(opts, L, t, s) ==
    /\ Selected(opts, s)
    /\ ~ShouldForce(opts)
    /\ ~IsSignedToday(L, t, s)
    /\ ShouldSkipDueToFailures(L, t, s, ConfigMaxFailedAttempts, ConfigRetryInterval)

IsValidIgnoringSigned(opts, L, t, s) ==
    /\ Selected(opts, s)
    /\ ~SkippedBackoff(opts, L, t, s)

IsValid(opts, L, t, s) ==
    /\ Selected(opts, s)
    /\ ~SkippedSigned(opts, L, t, s)
    /\ ~SkippedBackoff(opts, L, t, s)

ValidEntries(opts, L, t) ==
    SelectSeq(ConfigSites, LAMBDA s : IsValid(opts, L, t, s))

SkippedEntries(opts, L, t) ==
    {[site |-> s, type |-> "signed"] :
        s \in {x \in Sites : SkippedSigned(opts, L, t, x)}}
    \cup
    {[site |-> s, type |-> "failed_too_much"] :
        s \in {x \in Sites : SkippedBackoff(opts, L, t, x)}}

RECURSIVE ClearForced(_, _, _)
ClearForced(L, t, entries) ==
    IF entries = <<>>
    THEN L
    ELSE ClearForced(ClearSiteStatus(L, t, Head(entries), TRUE), t, Tail(entries))

AfterFilter(opts, L, t) ==
    IF ShouldForce(opts) THEN ClearForced(L, t, ValidEntries(opts, L, t)) ELSE L

ChangedSites(L1, L2) ==
    {s \in Sites : {r \in L1 : r.site = s} # {r \in L2 : r.site = s}}

InBackoff(L, t, s) ==
    ShouldSkipDueToFailures(L, t, s, ConfigMaxFailedAttempts, ConfigRetryInterval)

StartCycle(via, site, force) ==
    /\ pc = "idle"
    /\ LET opts == IF via = "cli_run" THEN CliRunOptions(site, force)
                                      ELSE RunSigninOptions(site, force)
           valid == ValidEntries(opts, status_data, now)
           after == AfterFilter(opts, status_data, now)
       IN  /\ \A i \in 1..Len(valid) :
                  CurrentFailedCount(status_data, now, valid[i]) < MaxFailCount
           /\ force_options' = opts
           /\ request' = [via |-> via, site |-> site, force |-> force]
           /\ valid_entries' = valid
           /\ skipped_entries' = SkippedEntries(opts, status_data, now)
           /\ status_data' = after
           /\ status_file' = SaveStatus(status_file, after)
           /\ executed' = {}
           /\ scheduled' = {valid[i] : i \in 1..Len(valid)}
           /\ completed' = {}
           /\ success_count' = 0
           /\ failed_count' = 0
           /\ success_results' = <<>>
           /\ failed_results' = <<>>
           /\ written' = ChangedSites(status_data, after)
           /\ cycle_start' =
                  [signed_rows |-> {r \in status_data :
                                        r.date = TodayKey(now) /\ r.status = "success"},
                   backoff |-> {s \in Sites : InBackoff(status_data, now, s)}]
           /\ pc' = IF valid = <<>> THEN "idle" ELSE "running"
           /\ cycle_end' = IF valid = <<>> THEN "early" ELSE "none"
    /\ UNCHANGED <<now, backend, sign_in_log, last, entry_vars, rest_vars>>

(* One iteration of the task loop.  outcome is what sign_in did: "ok" (the  *)
(* entry is not failed), "failed" (the entry was failed by the workflow) or *)
(* "raised" (sign_in raised).  _sign_in_with_error_handling turns a raise   *)
(* into a failed entry; an exception that escapes it would reach the except *)
(* branch of the loop, which records a failure as well.                     *)
(*                                                                          *)
(* The loop counts a success before it calls record_signin_success, and it  *)
(* passes signin_type as a fifth argument.  The status manager the          *)
(* scheduler imports (pt_checkin/core/signin_status.py) takes that          *)
(* argument; were the call to raise, the except branch of the loop would    *)
(* count the target as failed too and write a failure row.                  *)

StatusManagerAcceptsSigninType == TRUE

SignInWithErrorHandling(outcome) == IF outcome = "raised" THEN "failed" ELSE outcome

WriteRaises(result) == result = "ok" /\ ~StatusManagerAcceptsSigninType

TaskWriteDroppingRaised(L, t, s, outcome, result) ==
    IF outcome = "raised" THEN L
    ELSE IF result = "ok" /\ ~WriteRaises(result)
         THEN RecordSigninSuccess(L, t, s)
         ELSE RecordSigninFailed(L, t, s)

TaskWrite(L, t, s, outcome, result) ==
    IF result = "ok" /\ ~WriteRaises(result)
    THEN RecordSigninSuccess(L, t, s)
    ELSE RecordSigninFailed(L, t, s)

SuccessCount(n, result) == IF result = "ok" THEN n + 1 ELSE n

FailedCountAlways(n, result) == n + 1

FailedCount(n, result) == IF result = "ok" /\ ~WriteRaises(result) THEN n ELSE n + 1

SuccessResults(q, s, result) == IF result = "ok" THEN Append(q, s) ELSE q

FailedResults(q, s, result) ==
    IF result = "ok" /\ ~WriteRaises(result) THEN q ELSE Append(q, s)

EndOfCycle(L, t) == CleanupOldRecords(L, t, KeepDays)

RunTask(outcome) ==
    /\ pc = "running"
    /\ valid_entries # <<>>
    /\ LET s == Head(valid_entries)
           result == SignInWithErrorHandling(outcome)
           wrote == TaskWrite(status_data, now, s, outcome, result)
       IN  /\ executed' = executed \cup {s}
           /\ written' = written \cup {s}
           /\ completed' = completed \cup {[site |-> s, outcome |-> outcome]}
           /\ success_count' = SuccessCount(success_count, result)
           /\ failed_count' = FailedCount(failed_count, result)
           /\ success_results' = SuccessResults(success_results, s, result)
           /\ failed_results' = FailedResults(failed_results, s, result)
           /\ valid_entries' = Tail(valid_entries)
           /\ IF Tail(valid_entries) = <<>>
              THEN /\ status_data' = EndOfCycle(wrote, now)
                   /\ pc' = "idle"
                   /\ cycle_end' = "done"
              ELSE /\ status_data' = wrote
                   /\ UNCHANGED <<pc, cycle_end>>
           /\ status_file' = SaveStatus(SaveStatus(status_file, wrote), status_data')
    /\ UNCHANGED <<now, backend, sign_in_log, last, entry_vars, rest_vars, force_options,
                   request, skipped_entries, cycle_start, scheduled>>

(* The process dies in the middle of a cycle and is started again: the new  *)
(* TaskScheduler constructs a SignInStatusManager, which loads the file.    *)

CrashAndRestart ==
    /\ pc = "running"
    /\ pc' = "idle"
    /\ cycle_end' = "crashed"
    /\ valid_entries' = <<>>
    /\ status_data' = LoadStatus(status_file)
    /\ UNCHANGED <<now, backend, status_file, sign_in_log, last, entry_vars, rest_vars,
                   force_options, request, skipped_entries, executed, written,
                   cycle_start, aggregate_vars, scheduled, completed>>

IdleHistory ==
    /\ force_options' = [force_all |-> FALSE, force_sites |-> {}, force_site |-> ""]
    /\ request' = NoRequest
    /\ skipped_entries' = {}
    /\ executed' = {}
    /\ written' = {}
    /\ cycle_start' = [signed_rows |-> {}, backoff |-> {}]
    /\ cycle_end' = "none"
    /\ success_count' = 0
    /\ failed_count' = 0
    /\ success_results' = <<>>
    /\ failed_results' = <<>>
    /\ scheduled' = {}
    /\ completed' = {}

ClockStep(t) ==
    /\ now' = t
    /\ IF pc = "idle"
       THEN IdleHistory
       ELSE UNCHANGED <<force_options, request, skipped_entries, executed,
                        written, cycle_start, cycle_end, aggregate_vars,
                        scheduled, completed>>
    /\ UNCHANGED <<backend, status_data, status_file, sign_in_log, last,
                   entry_vars, rest_vars, pc, valid_entries>>

SchedTick ==
    /\ now.hour < MaxHour
    /\ ClockStep([now EXCEPT !.hour = @ + 1])

SchedNextDay(max_day) ==
    /\ now.day < max_day
    /\ ClockStep([day |-> now.day + 1, hour |-> 0])

InitSched == EntryInit /\ LedgerInit /\ SchedInit /\ RestInit /\ backend = "json"

NextSched ==
    \/ \E via \in {"cli_run", "run_signin"}, site \in {"", "s1", "s2"},
          force \in BOOLEAN : StartCycle(via, site, force)
    \/ \E outcome \in {"ok", "failed", "raised"} : RunTask(outcome)
    \/ CrashAndRestart
    \/ SchedTick

SpecSched == InitSched /\ [][NextSched]_vars

---------------------------------------------------------------------------
(* SpecPrune: unforced cycles over many days, for the retention window.    *)
(* "sx" is a selection that names no configured target.  A cycle that has  *)
(* something to run starts only while the ledger holds fewer than          *)
(* MaxLedgerDates earlier dates.                                           *)

OldDates == {r.date : r \in status_data} \ {TodayKey(now)}

NextPrune ==
    \/ \E site \in {"", "s1", "sx"} :
           /\ \/ ValidEntries(CliRunOptions(site, FALSE), status_data, now) = <<>>
              \/ Cardinality(OldDates) < MaxLedgerDates
           /\ StartCycle("cli_run", site, FALSE)
    \/ \E outcome \in {"ok", "failed"} : RunTask(outcome)
    \/ SchedNextDay(KeepDays + 1)

SpecPrune == InitSched /\ [][NextPrune]_vars

---------------------------------------------------------------------------
(* Claims about the scheduler cycle, checked under SpecSched / SpecPrune *)

InCycle == request.via # "none"

SignedNotRun(r) ==
    /\ r.site \notin executed
    /\ r.site \notin written
    /\ r \in status_data

ReportedSigned(s) == [site |-> s, type |-> "signed"] \in skipped_entries

\* C6 (as stated): in a cycle that is not forced, a target whose record for
\* today is a success is never run, its record is left unchanged, and it is
\* reported as skipped.
C6_Original ==
    (InCycle /\ ~request.force) =>
        \A r \in cycle_start.signed_rows : SignedNotRun(r) /\ ReportedSigned(r.site)

\* C6 (amended): in a cycle that is not forced, a target whose record for today
\* is a success is never run and its record is left unchanged; it is reported
\* as skipped when it matches the cycle's target selection (a target that a
\* single-target selection excludes is dropped without a report).
C6_SignedNotRun ==
    (InCycle /\ ~request.force) =>
        \A r \in cycle_start.signed_rows :
            /\ SignedNotRun(r)
            /\ Selected(force_options, r.site) => ReportedSigned(r.site)

C6_Witness ==
    /\ InCycle
    /\ ~request.force
    /\ cycle_end = "done"
    /\ executed # {}
    /\ \E r \in cycle_start.signed_rows : SignedNotRun(r) /\ ReportedSigned(r.site)

\* C7: with a single-target selection X (CLI run --site X, or
\* run_signin(site=X)) only X is executed and written to the ledger in that
\* cycle; every other configured target is neither run nor modified.
C7_Original ==
    (InCycle /\ request.site # "") =>
        /\ executed \subseteq {request.site}
        /\ written \subseteq {request.site}

\* C8: a forced run bypasses only the already-succeeded-today filter; a target
\* that is in backoff when the forced cycle starts is still skipped (this
\* scheduler has no separate option that forces past the backoff).
C8_Original ==
    (InCycle /\ request.force) =>
        \A s \in cycle_start.backoff : s \notin executed

Expired(r) == now.day - r.date > KeepDays

\* C10: after any invocation of the cycle, a cycle in which every target was
\* filtered out or skipped included, the ledger holds no record older than
\* the retention window.
C10_Original ==
    cycle_end \in {"done", "early"} => \A r \in status_data : ~Expired(r)

---------------------------------------------------------------------------
(* Claims about the task loop of a cycle, checked under SpecSched *)

RecordedStatus(outcome) == IF outcome = "ok" THEN "success" ELSE "failed"

Persisted(c) ==
    /\ HasRow(status_file, Today, c.site)
    /\ RowOf(status_file, Today, c.site).status = RecordedStatus(c.outcome)

Remaining == {valid_entries[i] : i \in 1..Len(valid_entries)}

\* C12: an exception raised while running one target is recorded as a ledger
\* failure for that target and never aborts the cycle: the remaining scheduled
\* targets stay queued and are run, and at the end of the cycle every
\* scheduled target has been run and has a ledger record for today.
C12_ExceptionRecorded ==
    /\ \A c \in completed :
           c.outcome = "raised" =>
               GetSiteStatus(status_data, now, c.site).status = "failed"
    /\ pc = "running" => scheduled = executed \cup Remaining
    /\ cycle_end = "done" =>
           /\ executed = scheduled
           /\ \A s \in scheduled : HasRow(status_data, Today, s)

C12_Witness ==
    /\ cycle_end = "done"
    /\ [site |-> "s1", outcome |-> "raised"] \in completed
    /\ [site |-> "s2", outcome |-> "ok"] \in completed
    /\ GetSiteStatus(status_data, now, "s1").status = "failed"
    /\ GetSiteStatus(status_data, now, "s2").status = "success"

Occurrences(q, s) == Cardinality({i \in 1..Len(q) : q[i] = s})

---------------------------------------------------------------------------
(* Claims about concurrent workers, checked under SpecWorkers *)

AllDone == \A w \in Workers : worker_pc[w] = "done"

SuccessRecorded(L, s) == GetSiteStatus(L, now, s).status = "success"

InSaveCookie(w) == worker_pc[w] \in SaveCookieSteps

CookieSaved(w) == worker_pc[w] \notin {"start"} \cup SaveCookieSteps

\* C15: the read-modify-write of the credential backup in save_cookie is
\* mutually exclusive across tasks: two tasks are never inside it together,
\* and when two tasks save credentials for different targets concurrently the
\* backup ends containing both targets' records.
C15_SaveCookieExclusive ==
    /\ \A v, w \in Workers : (InSaveCookie(v) /\ InSaveCookie(w)) => v = w
    /\ \A w \in Workers :
           (CookieSaved(w) /\ session_cookie[w] # "") =>
               [site |-> WorkerSite(w), cookie |-> session_cookie[w]]
                   \in cookies_backup_file

C15_Witness ==
    /\ \A w \in Workers : CookieSaved(w) /\ session_cookie[w] # ""
    /\ \A w \in Workers :
           [site |-> WorkerSite(w), cookie |-> session_cookie[w]]
               \in cookies_backup_file
    /\ Cardinality(cookies_backup_file) = 2

---------------------------------------------------------------------------
(* Claims about the retry coordinator, checked under SpecRetry *)

Attempts == Len(attempt_log)

LastAttempt == attempt_log[Attempts]

\* C16: one run of a target makes at most N attempts (N = max attempts,
\* default 3) and makes no attempt after a successful one.
C16_AtMostN ==
    /\ Attempts <= max_retries
    /\ \A i \in 1..Attempts : attempt_log[i].outcome = "ok" => i = Attempts
    /\ report.status = "success" => retry_pc = "done"

C16_Witness ==
    /\ retry_pc = "done"
    /\ Attempts = DefaultMaxRetries
    /\ max_retries = DefaultMaxRetries
    /\ LastAttempt.outcome # "ok"

EndedWithoutSuccess ==
    /\ retry_pc = "done"
    /\ Attempts > 0
    /\ LastAttempt.outcome # "ok"

\* C17: when a target's run ends without any successful attempt, the failure
\* reported for the target carries the failure reason of the last attempt
\* that was made.
C17_Original ==
    EndedWithoutSuccess =>
        report = Failure([category |-> LastAttempt.outcome, attempt |-> Attempts])

\* C18: after a failed attempt the credential is force-refreshed from the
\* external source only if the failure category is authentication and an
\* external source is configured; after a failure of any other category the
\* source is not queried and the next attempt uses the same credential, until
\* attempts are exhausted.
C18_Original ==
    /\ \A i \in 1..Attempts :
           /\ attempt_log[i].refreshed =>
                  attempt_log[i].outcome = "auth" /\ CloudEnabled
           /\ (attempt_log[i].outcome = "conn" /\ i < Attempts) =>
                  attempt_log[i + 1].cookie = attempt_log[i].cookie
    /\ (EndedWithoutSuccess /\ LastAttempt.outcome = "conn") => Attempts = max_retries

ScenarioC ==
    /\ retry_pc = "done"
    /\ max_retries = 3
    /\ CloudEnabled
    /\ Attempts = 3
    /\ attempt_log[1].outcome = "auth"
    /\ attempt_log[2].outcome = "auth"
    /\ attempt_log[3].outcome = "ok"

\* C19: with max attempts = 3, a run whose attempts 1 and 2 fail with an
\* authentication failure, whose external source returns a new credential and
\* whose attempt 3 succeeds ends as overall success, leaves the new credential
\* in the Credential Record and makes exactly 2 refresh calls, one after each
\* failed attempt and none after the success.
C19_ScenarioC ==
    ScenarioC =>
        /\ report.status = "success"
        /\ refresh_calls = 2
        /\ attempt_log[1].refreshed /\ attempt_log[2].refreshed
        /\ ~attempt_log[3].refreshed
        /\ cookie_cache = CloudCookie(fetches)
        /\ attempt_log[3].cookie = cookie_cache

C19_Witness ==
    /\ ScenarioC
    /\ report.status = "success"
    /\ refresh_calls = 2
    /\ cookie_cache = CloudCookie(fetches)

HadRecord == resolved.record # NoCookie

\* C20 (as stated): the credential is the cached Credential Record if one
\* exists, otherwise the external source's (queried only when the target opts
\* in), otherwise the configured one; a target that has not opted in never
\* causes a query, and an existing record is preferred over the configured
\* credential for every target.
C20_Original ==
    resolved.done =>
        /\ ~use_cookie_cloud => ~resolved.queried
        /\ HadRecord => resolved.cookie = resolved.record
        /\ (~HadRecord /\ resolved.cloud # NoCookie) => resolved.cookie = resolved.cloud
        /\ (~HadRecord /\ resolved.cloud = NoCookie) => resolved.cookie = config_cookie

\* C20 (amended): for a target that opts in while an external source is
\* configured the credential is the cached record if one exists (no query),
\* otherwise the external source's answer, otherwise the configured one; for
\* any other target the record and the external source are not consulted and
\* the configured credential is used.
C20_ResolutionOrder ==
    resolved.done =>
        /\ resolved.queried <=> (CloudEnabled /\ ~HadRecord)
        /\ (CloudEnabled /\ HadRecord) => resolved.cookie = resolved.record
        /\ (CloudEnabled /\ ~HadRecord /\ resolved.cloud # NoCookie) =>
               resolved.cookie = resolved.cloud
        /\ (CloudEnabled /\ ~HadRecord /\ resolved.cloud = NoCookie) =>
               resolved.cookie = config_cookie
        /\ ~CloudEnabled => resolved.cookie = config_cookie
        /\ resolved.cookie # NoCookie => entry_cookie # NoCookie

C20_Witness ==
    /\ resolved.done
    /\ CloudEnabled
    /\ HadRecord
    /\ config_cookie # NoCookie
    /\ resolved.cookie = resolved.record
    /\ ~resolved.queried

EndedInSuccess ==
    /\ retry_pc = "done"
    /\ report.status = "success"

\* C21: whenever a target's run ends in success, the credential that the
\* successful attempt used is what the target's Credential Record holds
\* afterwards, whatever the record held before.
C21_Original ==
    EndedInSuccess => cookie_cache = LastAttempt.cookie

(* Claims about the classifier, checked under SpecClassify *)

OffAllowList ==
    /\ cls.called
    /\ cls.response.present
    /\ ~cls.response.in_urls

\* C22 (as stated): for every response whose final URL is not in the Work's
\* allow-list the classification is URL_REDIRECT and the context ends failed,
\* whatever the content is, content that could not be decoded included.
C22_Original ==
    OffAllowList =>
        /\ cls.state.name = "URL_REDIRECT"
        /\ ctx.failed

\* C22 (amended): for every response whose final URL is not in the Work's
\* allow-list the context ends failed, and the classification is URL_REDIRECT
\* whatever the content holds, except that it is NETWORK_ERROR when the check
\* requires content and the content could not be decoded.
C22_UrlRedirect ==
    OffAllowList =>
        /\ ctx.failed
        /\ cls.state.name = IF cls.check_content /\ ~cls.content.present
                            THEN "NETWORK_ERROR"
                            ELSE "URL_REDIRECT"

C22_Witness ==
    /\ OffAllowList
    /\ cls.method = "check_sign_in_state"
    /\ cls.work.succeed_regex
    /\ cls.content.succeed
    /\ cls.state = RequestNetworkState("URL_REDIRECT")
    /\ ctx.failed
    /\ ctx.result = cls.pre.result

NothingToClassify ==
    /\ cls.called
    /\ \/ ~cls.response.present
       \/ cls.check_content /\ ~cls.content.present

PassedNetworkChecks ==
    /\ cls.called
    /\ cls.method # "check_network_state"
    /\ cls.response.present
    /\ cls.response.in_urls
    /\ cls.content.present

\* C25: a response in the allow-list whose content is a maintenance page, or
\* whose status is 503, is classified MAINTENANCE, and one whose content is an
\* anti-bot challenge is classified BLOCKED, even when a success pattern of
\* the Work matches as well.
C25_Original ==
    PassedNetworkChecks =>
        /\ (cls.content.signature = "maintenance" \/ cls.response.status = 503) =>
               cls.state.name = "MAINTENANCE"
        /\ (cls.content.signature = "antibot" /\ cls.response.status # 503) =>
               cls.state.name = "BLOCKED"

(* a page with no maintenance or anti-bot signature, answered with 200 *)
PlainPage ==
    /\ PassedNetworkChecks
    /\ cls.work.succeed_regex
    /\ cls.content.signature = "none"
    /\ cls.response.status = 200

FailureMatches == cls.work.fail_regex /\ cls.content.fail

FirstMatch ==
    IF cls.content.succeed THEN SignStateOf("SUCCEED")
    ELSE IF FailureMatches THEN SignStateOf("WRONG_ANSWER")
    ELSE IF cls.content.transient THEN CommonNetworkState("NETWORK_ERROR")
    ELSE SignStateOf("NO_SIGN_IN")

\* C26: for a response that passes the network and allow-list checks and a
\* Work with success patterns, the classifier gives the first of: SUCCEEDED
\* when a success pattern matches, WRONG_ANSWER when the failure pattern
\* matches, NETWORK_ERROR when a transient-error phrase matches, NOT_YET_DONE.
C26_Original ==
    (PlainPage /\ cls.method = "check_sign_in_state") => cls.state = FirstMatch

Occurs(fragment, text) == \E i \in 1..Len(text) : text[i] = fragment

StartsWith(text, head) ==
    /\ Len(head) <= Len(text)
    /\ SubSeq(text, 1, Len(head)) = head

\* C27: when a success pattern matches, the classification is SUCCEEDED and
\* the result message is the text of the matched group without markup,
\* followed by the message accumulated before; with pattern "Welcome back"
\* and content "Welcome back, Alice!" the message holds that whole content.
C27_Original ==
    (PlainPage /\ cls.method = "check_sign_in_state" /\ cls.content.succeed) =>
        /\ cls.state = SignStateOf("SUCCEED")
        /\ StartsWith(ctx.result, Strip(cls.content.group) \o cls.pre.result)
        /\ \A i \in 1..Len(cls.content.rest) :
               Occurs(cls.content.rest[i], ctx.result)

NoPatternMatches ==
    /\ ~cls.content.succeed
    /\ ~FailureMatches
    /\ ~cls.content.transient

\* C28: when the last Work's response matches no pattern (NOT_YET_DONE), the
\* final-state check returns CHECKIN_FAILED and marks the context failed; for
\* every other classification it returns what the classifier returned and
\* leaves the context as the classifier left it.
C28_Original ==
    (cls.called /\ cls.method = "check_final_state") =>
        LET classified == CheckSignInState(cls.pre, cls.work, cls.response,
                                           cls.content)
        IN  /\ (PlainPage /\ NoPatternMatches) =>
                   /\ cls.state = SignStateOf("SIGN_IN_FAILED")
                   /\ ctx.failed
            /\ classified.state # SignStateOf("NO_SIGN_IN") =>
                   /\ cls.state = classified.state
                   /\ ctx = classified.entry

(* Claims about the run of a workflow, checked under SpecWorkflow *)

\* C24: every network call a Work's method issues carries the request timeout
\* of 60 seconds, so a call to a target that never answers ends: the run is
\* not blocked, and the step fails with a network error.
C24_Original ==
    net_call.issued =>
        /\ net_call.has_timeout
        /\ net_call.timeout = RequestTimeout
        /\ net_call.target = "never" =>
               /\ wf_pc # "blocked"
               /\ ctx.failed
               /\ ctx.reason.text = "Network error"

\* C29: whenever the runner stops a workflow because a Work's classification
\* differs from its expected state, the context is failed at that moment; a
\* run whose workflow stopped before its last Work met its expected state is
\* never recorded as a success.
C29_Original ==
    /\ run.stopped = "mismatch" => run.stop_failed
    /\ run.recorded = "success" => run.completed

SuccessfulCheckIn ==
    /\ run.completed
    /\ ~run.signin.failed

\* C30: a failure of get_messages or get_details, reported by marking the
\* context failed or by raising, never overturns a successful check-in: after
\* the run the failed flag, the reason and the failure category are those the
\* workflow left, and the target is recorded as a success.
C30_Original ==
    (SuccessfulCheckIn /\ wf_pc \in {"finished", "recorded"}) =>
        /\ ~ctx.failed
        /\ ctx.reason = run.signin.reason
        /\ ExistingErrorType(ctx.error_type) =
               ExistingErrorType(run.signin.error_type)
        /\ wf_pc = "recorded" => run.recorded = "success"


(* the failures the transport and check_network_state store: an exception  *)
(* or timeout of the call, a status other than 200, an anti-bot page, and  *)
(* a response whose URL is not one of the Work's response_urls             *)
TransportFailure ==
    /\ net_call.issued
    /\ net_call.target \in {"status", "cloudflare", "exception", "never"}
    /\ run.stopped = "failed"

RedirectFailure ==
    /\ run.stopped = "mismatch"
    /\ cls.called
    /\ cls.state \in {RequestNetworkState("URL_REDIRECT"),
                      RequestNetworkState("NETWORK_ERROR")}

\* C31: a failure caused by a transport error, a timeout, a status other than
\* 200, an anti-bot page or a redirect off the allow-list is stored on the
\* context with category connectivity, so that no later general failure of
\* the run replaces its reason.
C31_Original ==
    (run.left /\ (TransportFailure \/ RedirectFailure)) =>
        /\ run.signin.failed
        /\ run.signin.error_type = "connectivity"
        /\ FailWithPrefix(run.signin, "collaborator").reason = run.signin.reason


(* Claims about the exit status of a run, checked under SpecSched *)

(* run_sign_in_task wraps the whole cycle in try / except Exception and    *)
(* logs what it catches, so run_once returns for every way a cycle ends    *)
RunOnceRaises(cycle) == FALSE

(* cli and run: ctx.exit(1) when ConfigManager raises (the command is not  *)
(* entered) or when run_once raises; otherwise the command returns and the *)
(* process ends with status 0                                              *)
ExitStatus(config_error, cycle) ==
    IF config_error \/ RunOnceRaises(cycle) THEN 1 ELSE 0

\* C32: the exit status of a run has three distinguishable values: one for a
\* cycle in which every target succeeded, another for a cycle with at least
\* one failed target, and a third for a run that could not start because of
\* a configuration error.
C32_Original ==
    cycle_end = "done" =>
        LET status == ExitStatus(FALSE, cycle_end)
        IN  /\ status # ExitStatus(TRUE, "none")
            /\ (failed_count = 0) <=> (status = 0)


(* the Steps of the run so far, in the order they ran *)
StepsInOrder ==
    \A i \in 1..Len(run.steps) : run.steps[i].index = i

\* C33: within one workflow the Works run in list order, one at a time: the
\* method of Work k+1 is invoked only after Work k has been checked and has
\* met its expected state (by its classification when it declares one), and
\* once a Work does not meet its expected state no later Work's method is
\* invoked in that run.
C33_Sequential ==
    /\ StepsInOrder
    /\ Len(run.steps) <= Len(workflow)
    /\ \A i \in 1..Len(run.steps) :
           i < Len(run.steps) =>
               /\ run.steps[i].returned
               /\ run.steps[i].ok
               /\ workflow[i].assert_method # "none" => run.steps[i].classified
    /\ (run.left /\ ~run.completed /\ workflow # <<>>) =>
           /\ run.steps # <<>>
           /\ ~run.steps[Len(run.steps)].ok
           /\ wf_pc # "workflow"

C33_Witness ==
    /\ Len(workflow) = 2
    /\ Len(run.steps) = 2
    /\ run.steps[2].invoked
    /\ run.steps[1].classified


FlaggedSteps == {i \in 1..Len(run.steps) : run.steps[i].flagged}

\* C34: a Work flagged use_last_content issues no network call: its method
\* is never invoked and it is checked against the previous Work's response
\* and content, at every position in the workflow, the first included.
C34_Original ==
    \A i \in FlaggedSteps :
        /\ ~run.steps[i].invoked
        /\ ~run.steps[i].called
        /\ run.steps[i].same_response
        /\ run.steps[i].same_content

\* C34 (amended): a flagged Work that follows a Work that met its expected
\* state issues no network call and is checked against that Work's response
\* and content; a flagged Work that is the first to run has nothing to reuse
\* and its method is invoked like that of any other Work.
C34_ReuseAfterFirst ==
    /\ \A i \in FlaggedSteps :
           IF i > 1
           THEN /\ run.steps[i].had_last
                /\ ~run.steps[i].invoked
                /\ ~run.steps[i].called
                /\ run.steps[i].same_response
                /\ run.steps[i].same_content
                /\ i = Len(run.steps) =>
                       /\ ~net_call.issued
                       /\ wf_pc # "blocked"
           ELSE /\ ~run.steps[i].had_last
                /\ run.steps[i].invoked
    /\ \A i \in 1..Len(run.steps) :
           run.steps[i].had_last <=> i > 1

C34_Witness ==
    /\ Len(run.steps) = 2
    /\ run.steps[2].flagged
    /\ ~run.steps[2].invoked
    /\ run.steps[2].classified
    /\ run.steps[2].ok
    /\ last_content.present


FailedSteps == {i \in 1..Len(run.steps) : run.steps[i].failed}

\* C35: once the context is marked failed during a Work (for example by the
\* transport, which saw a status other than 200 or an anti-bot page and
\* still returned the response), that Work does not meet its expected state
\* whatever the content is: no classifier is called, no success message is
\* stored even when a success pattern matches, and the workflow stops there.
C35_FailedStepStops ==
    \A i \in FailedSteps :
        /\ ~run.steps[i].classified
        /\ ~run.steps[i].ok
        /\ i = Len(run.steps)
        /\ work_index = i - 1
        /\ cls = NoCall
        /\ run.left
        /\ run.stopped = "failed"
        /\ ~run.completed
        /\ run.signin.failed
        /\ run.signin.result = <<>>
        /\ ctx.result = <<>>
        /\ wf_pc \in {"finished", "recorded"}

C35_Witness ==
    /\ net_call.issued
    /\ net_call.target \in {"status", "cloudflare"}
    /\ FailedSteps = {Len(run.steps)}
    /\ last_response.present
    /\ last_response.in_urls
    /\ last_content.present
    /\ last_content.succeed
    /\ workflow[Len(run.steps)].succeed_regex
    /\ workflow[Len(run.steps)].assert_method = "check_final_state"
    /\ Len(workflow) > Len(run.steps)
    /\ wf_pc = "recorded"


(* Claims about the credential source and the end of a run, checked under  *)
(* SpecRetry                                                               *)

(* the failed attempts after which get_cookies was called *)
Refreshed ==
    {i \in 1..Attempts :
        attempt_log[i].refreshed /\ attempt_log[i].response # "raise"}

\* C40: the client of the external credential source contacts the remote
\* service at most once per process: after its first fetch, successful or
\* not, every get_cookies call is answered from the cached set, so every
\* force-refresh of a run returns the same credential as the first one.
C40_FetchOnce ==
    /\ fetches <= 1
    /\ cookies.fetched <=> fetches = 1
    /\ cloud_queries > 0 /\ entry_url = "ok" => cookies.fetched
    /\ \A i \in Refreshed :
           /\ attempt_log[i].answer = cookies.answer
           /\ \A j \in Refreshed : attempt_log[j].answer = attempt_log[i].answer
           /\ (resolved.queried /\ entry_url = "ok") =>
                  resolved.cloud = IF attempt_log[i].answer > 0
                                   THEN CloudCookie(attempt_log[i].answer)
                                   ELSE NoCookie
    /\ \A i \in Refreshed :
           i < Attempts => attempt_log[i + 1].cookie = CloudCookie(1)

C40_Witness ==
    /\ retry_pc = "done"
    /\ Attempts = 3
    /\ Refreshed = {1, 2}
    /\ attempt_log[1].answer = 1
    /\ attempt_log[2].answer = 1
    /\ attempt_log[3].cookie = attempt_log[2].cookie
    /\ cloud_queries = 3
    /\ fetches = 1


(* the cookie of the Credential Record was used by a successful attempt *)
KnownGood(cookie) ==
    \E i \in 1..Attempts :
        attempt_log[i].outcome = "ok" /\ attempt_log[i].cookie = cookie

\* C36: the Credential Record holds only known-good credentials: it is
\* written only after a successful attempt, so a credential fetched at
\* resolution or by a refresh that has not yet produced a success is never
\* in the record, and a run that ends in failure leaves the record as it
\* was before the run.
C36_Original ==
    resolved.done =>
        /\ cookie_cache # resolved.record => KnownGood(cookie_cache)
        /\ (retry_pc = "done" /\ report.status # "success") =>
               cookie_cache = resolved.record

(* the failed attempts whose refresh gave no cookie, or whose domain could *)
(* not be derived                                                          *)
RefreshedInVain ==
    {i \in 1..Attempts :
        attempt_log[i].refreshed /\ attempt_log[i].response \in {"none", "raise"}}

\* C37: if the force-refresh after a failed attempt yields no credential, or
\* the target's domain cannot be derived, no further attempt is made for the
\* target in this run, even when attempts remain, and the run ends as a
\* failure.
C37_GivesUp ==
    \A i \in RefreshedInVain :
        /\ i = Attempts
        /\ i < max_retries
        /\ retry_pc = "done"
        /\ report.status # "success"
        /\ LastAttempt.outcome # "ok"
        /\ sign_in_log[Len(sign_in_log)].status = "Failed"
        /\ coordinator = "execute_with_retry" =>
               report = Failure([category |-> LastAttempt.outcome, attempt |-> i])

C37_Witness ==
    /\ RefreshedInVain = {1}
    /\ attempt_log[1].response = "none"
    /\ max_retries = 3
    /\ retry_pc = "done"
    /\ entry_cookie # NoCookie

\* C38: every target contributes exactly one entry (success, failure or
\* skipped) to the result list handed to reporting, on every path through
\* the retry loop, the paths where a refresh returns no credential or the
\* domain cannot be derived included.
C38_Original ==
    retry_pc = "done" =>
        /\ report # NoReport
        /\ report.status \in {"success", "failed", "no_cookie", "signed"}


(* Claims about the dates of the ledger, checked under SpecLedger *)

TodaysRows == {r \in status_data : r.date = TodayKey(now)}

EarlierFailures(s) ==
    {r \in status_data : r.site = s /\ r.date < TodayKey(now) /\ r.failed_count > 0}

\* C39: failure backoff is per date: failure_count and the skip policy read
\* only the current date's record, so on a new date a target starts with
\* failure_count 0 and is not skipped, however many failures earlier dates
\* that are still in the ledger hold for it.
C39_PerDate ==
    /\ \A s \in LedgerSites :
           /\ GetFailedCount(status_data, now, s) = GetFailedCount(TodaysRows, now, s)
           /\ GetSiteStatus(status_data, now, s) = GetSiteStatus(TodaysRows, now, s)
           /\ ~HasRow(status_data, TodayKey(now), s) =>
                  GetFailedCount(status_data, now, s) = 0
    /\ last.op = "skip" =>
           /\ last.res = ShouldSkipDueToFailures(TodaysRows, now, last.site,
                                                 last.thr, last.intv)
           /\ ~HasRow(status_data, TodayKey(now), last.site) =>
                  /\ last.pre_count = 0
                  /\ ~last.res

C39_Witness ==
    /\ last.op = "skip"
    /\ now.day > 0
    /\ ~HasRow(status_data, TodayKey(now), last.site)
    /\ \E r \in EarlierFailures(last.site) :
           r.status = "failed" /\ r.failed_count >= last.thr
    /\ ~last.res

=============================================================================
